---------------------------- MODULE Spec2Model ----------------------------
(***************************************************************************)
(* Gold-Liquid-Design: the noise-driven vertex deformation, the analytic   *)
(* shading composites, the starfield background and the LiquidHero object  *)
(* with its frame callback and resize handler.                             *)
(*                                                                         *)
(* Sources: src/main.js, src/unnamed/part_000 (an earlier revision of      *)
(* main.js with a different fragment composite) and                        *)
(* src/shaders/fragment.glsl (a fragment shader followed by the 4D-noise   *)
(* vertex shader).                                                         *)
(*                                                                         *)
(* GLSL floats are modelled as fixed-point integers: the float f is the    *)
(* integer f * ONE.  Products and quotients round toward zero.  Lattice    *)
(* coordinates and hash values, which the shaders hold in floats but which *)
(* are always whole numbers below 2^24, are plain integers.                *)
(***************************************************************************)
EXTENDS Integers, Sequences, FiniteSets, TLC

VARIABLES
    noiseCall,   \* one invocation of snoise(vec3), snoise(vec4) or fbm
    vert,        \* one invocation of a vertex shader: attributes, uniforms, outputs
    frag,        \* one invocation of fresnel or of a fragment shader
    frame,       \* the frame being rendered: its time and the outputs so far
    frames,      \* the frames presented so far, oldest first
    app          \* the page: window, clock source and the LiquidHero object

vars == <<noiseCall, vert, frag, frame, frames, app>>

\* a shader stage that is not running
Idle == [pc |-> "idle"]

---------------------------------------------------------------------------
(* Fixed-point floats *)

ONE == 12 * 1000

Milli(m) == (m * ONE) \div 1000
Micro(u) == (u * ONE) \div 1000000

\* the element of a one-element set; { F(x) : x \in {e} } evaluates e once
Only(S) == CHOOSE x \in S : TRUE

Abs(a) == IF a < 0 THEN -a ELSE a
Sign(a) == IF a < 0 THEN -1 ELSE 1
Min2(a, b) == IF a < b THEN a ELSE b
Max2(a, b) == IF a > b THEN a ELSE b

\* a * b on floats, rounded toward zero; the larger factor is split so that
\* the intermediate product stays inside 32 bits
MulAbs(a, b) == (a \div ONE) * b + ((a % ONE) * b) \div ONE
MulF(a, b) ==
    LET aa == Abs(a)
        bb == Abs(b)
        q  == IF aa >= bb THEN MulAbs(aa, bb) ELSE MulAbs(bb, aa)
    IN  IF (a < 0) # (b < 0) THEN -q ELSE q

\* a / b on floats (b # 0), rounded toward zero; the fraction is taken in two
\* digits (ONE = 100 * 120) so that the remainders stay inside 32 bits
DivAbs(a, b) ==
    (a \div b) * ONE + (((a % b) * 100) \div b) * 120
        + ((((a % b) * 100) % b) * 120) \div b
DivF(a, b) ==
    LET q == DivAbs(Abs(a), Abs(b))
    IN  IF (a < 0) # (b < 0) THEN -q ELSE q

\* a float times / divided by a whole number
DivInt(a, n) == Sign(a) * (Abs(a) \div n)

Floor(a) == (a \div ONE) * ONE
FloorInt(a) == a \div ONE
Fract(a) == a - Floor(a)
Clamp(x, lo, hi) == Min2(Max2(x, lo), hi)
\* step(edge, x): 0.0 if x < edge, else 1.0 (as a whole number 0 / 1)
Step(edge, x) == IF x < edge THEN 0 ELSE 1

Dot3(a, b) == MulF(a[1], b[1]) + MulF(a[2], b[2]) + MulF(a[3], b[3])
Dot4(a, b) == MulF(a[1], b[1]) + MulF(a[2], b[2]) + MulF(a[3], b[3]) + MulF(a[4], b[4])

---------------------------------------------------------------------------
(* NoiseField: hashing shared by both noise functions *)

\* x - floor(x * (1.0 / 289.0)) * 289.0 on a whole-number float
\* the remainder that keeps the sign of x (fmod), not the one of mod289
mod289Truncated(x) == x - Sign(x) * (Abs(x) \div 289) * 289

mod289(x) == x - (x \div 289) * 289

\* permute without the linear term: (34 x) x
permuteSquare(x) == mod289((x * 34) * x)

permute(x) == mod289(((x * 34) + 10) * x)

\* 1.79284291400159 - 0.85373472095314 * r
taylorInvSqrt(r) == (ONE + Milli(792) + Micro(843)) - MulF(Milli(853) + Micro(735), r)

---------------------------------------------------------------------------
(* NoiseField: snoise(vec3) of main.js *)

\* vec3 g = step(x0.yzx, x0.xyz); vec3 l = 1.0 - g;
CornerG3(x0) == <<Step(x0[2], x0[1]), Step(x0[3], x0[2]), Step(x0[1], x0[3])>>
CornerL3(x0) == LET g == CornerG3(x0) IN <<1 - g[1], 1 - g[2], 1 - g[3]>>
\* vec3 i1 = min(g.xyz, l.zxy);
CornerI1_3(x0) ==
    LET g == CornerG3(x0)
        l == CornerL3(x0)
    IN  <<Min2(g[1], l[3]), Min2(g[2], l[1]), Min2(g[3], l[2])>>
\* vec3 i2 = max(g.xyz, l.zxy);
CornerI2_3(x0) ==
    LET g == CornerG3(x0)
        l == CornerL3(x0)
    IN  <<Max2(g[1], l[3]), Max2(g[2], l[1]), Max2(g[3], l[2])>>

\* vec3 i = floor(v + dot(v, C.yyy));  C.y = 1/3  (whole numbers)
Cell3(v) ==
    LET s == DivInt(v[1] + v[2] + v[3], 3)
    IN  <<FloorInt(v[1] + s), FloorInt(v[2] + s), FloorInt(v[3] + s)>>

\* vec3 x0 = v - i + dot(i, C.xxx);  C.x = 1/6
Offset3(v) ==
    LET i == Cell3(v)
        t == DivInt((i[1] + i[2] + i[3]) * ONE, 6)
    IN  <<v[1] - i[1] * ONE + t, v[2] - i[2] * ONE + t, v[3] - i[3] * ONE + t>>

\* one component of x / y:  x_ * ns.x + ns.yyyy  with ns = (2/7, 1/14 - 1, 1/7)
GradXY3(k) == DivInt(k * 2 * ONE, 7) - DivInt(13 * ONE, 14)

\* the gradient of one corner from its hash p (lines 200-224 of main.js, one
\* lane of the vec4 computation): p0 = vec3(a0.xy, h.x) * norm.x
Grad3(p) ==
    LET j  == p - 49 * (p \div 49)            \* p - 49.0 * floor(p * ns.z * ns.z)
        x_ == j \div 7                        \* floor(j * ns.z)
        y_ == j - 7 * x_                      \* floor(j - 7.0 * x_)
        x  == GradXY3(x_)
        y  == GradXY3(y_)
        h  == ONE - Abs(x) - Abs(y)
        sx == FloorInt(x) * 2 + 1             \* s0 = floor(b0) * 2.0 + 1.0
        sy == FloorInt(y) * 2 + 1
        sh == -Step(h, 0)                     \* sh = -step(h, vec4(0.0))
        a  == <<x + sx * sh * ONE, y + sy * sh * ONE, h>>
        nm == taylorInvSqrt(Dot3(a, a))
    IN  <<MulF(a[1], nm), MulF(a[2], nm), MulF(a[3], nm)>>

\* the hash of the corner at lattice offset o from cell i (i already mod 289)
Hash3(i, o) == permute(permute(permute(i[3] + o[3]) + i[2] + o[2]) + i[1] + o[1])

\* max(0.6 - dot(x, x), 0.0), squared twice, times dot(p, x)
Falloff(d) ==
    LET m  == Max2(Milli(600) - d, 0)
        m2 == MulF(m, m)
    IN  MulF(m2, m2)

Corner3(i, o, x) == MulF(Falloff(Dot3(x, x)), Dot3(Grad3(Hash3(i, o)), x))

\* the sum over the four corners, from the cell i0 and the offset x0
snoise3At(i0, x0) ==
    LET i1 == CornerI1_3(x0)
        i2 == CornerI2_3(x0)
        x1 == <<x0[1] - i1[1] * ONE + DivInt(ONE, 6),
                x0[2] - i1[2] * ONE + DivInt(ONE, 6),
                x0[3] - i1[3] * ONE + DivInt(ONE, 6)>>
        x2 == <<x0[1] - i2[1] * ONE + DivInt(ONE, 3),
                x0[2] - i2[2] * ONE + DivInt(ONE, 3),
                x0[3] - i2[3] * ONE + DivInt(ONE, 3)>>
        x3 == <<x0[1] - DivInt(ONE, 2), x0[2] - DivInt(ONE, 2), x0[3] - DivInt(ONE, 2)>>
        i  == <<mod289(i0[1]), mod289(i0[2]), mod289(i0[3])>>
    IN  42 * (Corner3(i, <<0, 0, 0>>, x0) + Corner3(i, i1, x1)
              + Corner3(i, i2, x2) + Corner3(i, <<1, 1, 1>>, x3))

snoise3(v) == Only({snoise3At(i0, x0) : i0 \in {Cell3(v)}, x0 \in {Offset3(v)}})

---------------------------------------------------------------------------
(* NoiseField: snoise(vec4) and fbm of shaders/fragment.glsl *)

\* #define F4 0.309016994374947451
F4 == Milli(309) + Micro(17)
\* C = (G4, 2 G4, 3 G4, -1 + 4 G4)
C4x == Micro(138197)
C4y == Milli(276) + Micro(393)
C4z == Milli(414) + Micro(590)
C4w == -(Milli(447) + Micro(214))

\* vec4 i = floor(v + dot(v, vec4(F4)));  (whole numbers)
Cell4(v) ==
    LET s == MulF(v[1], F4) + MulF(v[2], F4) + MulF(v[3], F4) + MulF(v[4], F4)
    IN  <<FloorInt(v[1] + s), FloorInt(v[2] + s), FloorInt(v[3] + s), FloorInt(v[4] + s)>>

\* vec4 x0 = v - i + dot(i, C.xxxx);
Offset4(v) ==
    LET i == Cell4(v)
        t == (i[1] + i[2] + i[3] + i[4]) * C4x
    IN  <<v[1] - i[1] * ONE + t, v[2] - i[2] * ONE + t,
          v[3] - i[3] * ONE + t, v[4] - i[4] * ONE + t>>

\* Rank4 with the z/w comparison made independently for each of the two
\* components (both win a tie) instead of as complements
Rank4TieBothWin(x0) ==
    LET isX  == <<Step(x0[2], x0[1]), Step(x0[3], x0[1]), Step(x0[4], x0[1])>>
        isYZ == <<Step(x0[3], x0[2]), Step(x0[4], x0[2]), Step(x0[4], x0[3])>>
    IN  <<isX[1] + isX[2] + isX[3],
          (1 - isX[1]) + isYZ[1] + isYZ[2],
          (1 - isX[2]) + (1 - isYZ[1]) + isYZ[3],
          (1 - isX[3]) + (1 - isYZ[2]) + Step(x0[3], x0[4])>>

\* the rank vector i0 (lines 234-242)
Rank4(x0) ==
    LET isX  == <<Step(x0[2], x0[1]), Step(x0[3], x0[1]), Step(x0[4], x0[1])>>
        isYZ == <<Step(x0[3], x0[2]), Step(x0[4], x0[2]), Step(x0[4], x0[3])>>
    IN  <<isX[1] + isX[2] + isX[3],
          (1 - isX[1]) + isYZ[1] + isYZ[2],
          (1 - isX[2]) + (1 - isYZ[1]) + isYZ[3],
          (1 - isX[3]) + (1 - isYZ[2]) + (1 - isYZ[3])>>

ClampInt4(a, d) ==
    <<Clamp(a[1] - d, 0, 1), Clamp(a[2] - d, 0, 1), Clamp(a[3] - d, 0, 1), Clamp(a[4] - d, 0, 1)>>

\* vec4 i3 = clamp(i0, 0.0, 1.0); i2 = clamp(i0 - 1.0, ...); i1 = clamp(i0 - 2.0, ...)
CornerI3_4(x0) == ClampInt4(Rank4(x0), 0)
CornerI2_4(x0) == ClampInt4(Rank4(x0), 1)
CornerI1_4(x0) == ClampInt4(Rank4(x0), 2)

grad4(j) ==
    LET x == DivInt(((j % 294) \div 42) * ONE, 7) - ONE
        y == DivInt(((j % 49) \div 7) * ONE, 7) - ONE
        z == DivInt((j % 7) * ONE, 7) - ONE
        w == (ONE + DivInt(ONE, 2)) - (Abs(x) + Abs(y) + Abs(z))
        sw == IF w < 0 THEN ONE ELSE 0
        sx == IF x < 0 THEN 1 ELSE 0
        sy == IF y < 0 THEN 1 ELSE 0
        sz == IF z < 0 THEN 1 ELSE 0
    IN  <<x + (sx * 2 - 1) * sw, y + (sy * 2 - 1) * sw, z + (sz * 2 - 1) * sw, w>>

Hash4(i, o) ==
    permute(permute(permute(permute(i[4] + o[4]) + i[3] + o[3]) + i[2] + o[2]) + i[1] + o[1])

Corner4(i, o, x) ==
    LET g  == grad4(Hash4(i, o))
        nm == taylorInvSqrt(Dot4(g, g))
        p  == <<MulF(g[1], nm), MulF(g[2], nm), MulF(g[3], nm), MulF(g[4], nm)>>
    IN  MulF(Falloff(Dot4(x, x)), Dot4(p, x))

Sub4(x0, o, c) ==
    <<x0[1] - o[1] * ONE + c, x0[2] - o[2] * ONE + c, x0[3] - o[3] * ONE + c, x0[4] - o[4] * ONE + c>>

snoise4At(i0, x0) ==
    LET i1 == CornerI1_4(x0)
        i2 == CornerI2_4(x0)
        i3 == CornerI3_4(x0)
        i  == <<mod289(i0[1]), mod289(i0[2]), mod289(i0[3]), mod289(i0[4])>>
    IN  49 * (Corner4(i, <<0, 0, 0, 0>>, x0)
              + Corner4(i, i1, Sub4(x0, i1, C4x))
              + Corner4(i, i2, Sub4(x0, i2, C4y))
              + Corner4(i, i3, Sub4(x0, i3, C4z))
              + Corner4(i, <<1, 1, 1, 1>>, Sub4(x0, <<0, 0, 0, 0>>, C4w)))

snoise4(v) == Only({snoise4At(i0, x0) : i0 \in {Cell4(v)}, x0 \in {Offset4(v)}})

\* fbmBody with maxValue = amplitude in place of maxValue += amplitude
fbmBodyAssign(acc, n) ==
    [samples   |-> Append(acc.samples, n),
     value     |-> acc.value + MulF(acc.amplitude, n),
     maxValue  |-> acc.amplitude,
     amplitude |-> MulF(acc.amplitude, DivInt(ONE, 2)),
     frequency |-> acc.frequency * 2,
     broke     |-> FALSE]

\* the body of the loop of fbm, on the running sums acc and the sample n
fbmBody(acc, n) ==
    [samples   |-> Append(acc.samples, n),
     value     |-> acc.value + MulF(acc.amplitude, n),
     maxValue  |-> acc.maxValue + acc.amplitude,
     amplitude |-> MulF(acc.amplitude, DivInt(ONE, 2)),
     frequency |-> acc.frequency * 2,
     broke     |-> FALSE]

\* one pass of  for (int i = 0; i < 4; i++) { if (i >= octaves) break; ... }
fbmIter(p, octaves, i, acc) ==
    IF acc.broke \/ i >= octaves
    THEN [acc EXCEPT !.broke = TRUE]
    ELSE Only({fbmBody(acc, n) :
               n \in {snoise4(<<p[1] * acc.frequency, p[2] * acc.frequency,
                                p[3] * acc.frequency, p[4] * acc.frequency>>)}})

fbmStart ==
    [samples |-> <<>>, value |-> 0, maxValue |-> 0,
     amplitude |-> DivInt(ONE, 2), frequency |-> 1, broke |-> FALSE]

fbmSum(p, octaves) ==
    Only({fbmIter(p, octaves, 3, a3) :
          a3 \in {Only({fbmIter(p, octaves, 2, a2) :
                        a2 \in {Only({fbmIter(p, octaves, 1, a1) :
                                      a1 \in {fbmIter(p, octaves, 0, fbmStart)}})}})}})

\* return value / maxValue;  (maxValue # 0)
fbm(p, octaves) == Only({DivF(r.value, r.maxValue) : r \in {fbmSum(p, octaves)}})

---------------------------------------------------------------------------
(* What a float operation with no defined result may produce *)

PosInf == 2^30
NegInf == -(2^30)
NaN == 2^30 + 1
Undefined == {NaN, PosInf, NegInf, 0}
IsFinite(x) == x # NaN /\ x > NegInf /\ x < PosInf

---------------------------------------------------------------------------
(* GLSL built-ins used by the vertex and fragment shaders *)

\* the largest r with r * r <= n, by bisection on lo..hi
RECURSIVE IsqrtIn(_, _, _)
IsqrtIn(n, lo, hi) ==
    IF lo >= hi
    THEN lo
    ELSE Only({IF mid * mid <= n THEN IsqrtIn(n, mid, hi) ELSE IsqrtIn(n, lo, mid - 1) :
               mid \in {(lo + hi + 1) \div 2}})
Isqrt(n) == IsqrtIn(n, 0, 46340)

\* sqrt of a float x >= 0: sqrt(x / ONE) * ONE = sqrt(x * ONE)
Sqrt(x) == IF x <= 170000 THEN Isqrt(x * ONE) ELSE 8 * Isqrt((x \div 64) * ONE)

Length3(a) == Sqrt(Dot3(a, a))

\* normalize(a) = a / length(a), for a of non-zero length
Normalize3(a) ==
    Only({<<DivF(a[1], len), DivF(a[2], len), DivF(a[3], len)>> : len \in {Length3(a)}})

\* normalize(a): a zero-length vector is divided by 0, which gives NaN
\* components, or leaves the zeros on hardware that flushes the result
normalize(a) ==
    IF a = <<0, 0, 0>> THEN {<<NaN, NaN, NaN>>, <<0, 0, 0>>} ELSE {Normalize3(a)}

PI == Milli(3141) + Micro(593)

\* sin on [0, PI]: 16 x (PI - x) / (5 PI^2 - 4 x (PI - x))
SinHalf(x) ==
    Only({DivF(16 * q, 5 * MulF(PI, PI) - 4 * q) : q \in {MulF(x, PI - x)}})

\* sin(x): the argument reduced to [0, 2 PI), the second half mirrored
Sin(x) ==
    Only({IF r <= PI THEN SinHalf(r) ELSE -SinHalf(r - PI) : r \in {x % (2 * PI)}})

---------------------------------------------------------------------------
(* Deformer: the vertex shader of main.js (and, unchanged, of part_000) *)

Scale3(a, k) == <<MulF(a[1], k), MulF(a[2], k), MulF(a[3], k)>>
AddScalar3(a, c) == <<a[1] + c, a[2] + c, a[3] + c>>
Add3(a, b) == <<a[1] + b[1], a[2] + b[2], a[3] + b[3]>>

\* the sines and noise samples of lines 237-243, before their weights
vsSamples(pos, slowTime) ==
    [breathe |-> Sin(slowTime * 12),
     pulse   |-> Sin(slowTime * 10 + MulF(pos[2], Milli(2500))),
     sway    |-> Sin(slowTime * 7 + pos[1] * 2),
     noise1  |-> snoise3(AddScalar3(Scale3(pos, Milli(800)), MulF(slowTime, Milli(700)))),
     noise2  |-> snoise3(AddScalar3(Scale3(pos, Milli(1500)), MulF(slowTime, Milli(500))))]

\* vsWeighted with the breathing weight 0.8 in place of 0.08
vsWeightedHeavy(t) ==
    MulF(t.breathe, Milli(800)) + MulF(t.pulse, Milli(50)) + MulF(t.sway, Milli(35))
        + MulF(t.noise1, Milli(120)) + MulF(t.noise2, Milli(60))

\* breathe + pulse + sway + noise1 + noise2
vsWeighted(t) ==
    MulF(t.breathe, Milli(80)) + MulF(t.pulse, Milli(50)) + MulF(t.sway, Milli(35))
        + MulF(t.noise1, Milli(120)) + MulF(t.noise2, Milli(60))

\* float vertBias = (pos.y + 1.0) * 0.4 + 0.5;
vertBias(pos) == MulF(pos[2] + ONE, Milli(400)) + Milli(500)

\* float displacement = (...) * u_amplitude * vertBias;
vsDisplacement(sum, u_amplitude, bias) == MulF(MulF(sum, u_amplitude), bias)

\* vec3 newPosition = pos + norm * displacement;
DisplaceAxis(p, n, displacement) ==
    IF IsFinite(n) THEN p + MulF(n, displacement) ELSE NaN
Displace(pos, norm, displacement) ==
    <<DisplaceAxis(pos[1], norm[1], displacement),
      DisplaceAxis(pos[2], norm[2], displacement),
      DisplaceAxis(pos[3], norm[3], displacement)>>

\* norm is the value normalize(normal) produced
vertexMain(position, norm, u_time, u_amplitude) ==
    Only({[samples      |-> t,
           bias         |-> vertBias(position),
           displacement |-> d,
           newPosition  |-> Displace(position, norm, d),
           varyings     |-> {"v_normal", "v_worldPosition", "v_localPosition",
                             "v_smoothNormal"}] :
          <<t, d>> \in
              {<<t1, vsDisplacement(vsWeighted(t1), u_amplitude, vertBias(position))>> :
               t1 \in {vsSamples(position, MulF(u_time, Milli(80)))}}})

---------------------------------------------------------------------------
(* Deformer: the vertex shader of shaders/fragment.glsl *)

\* float verticalBias = 1.0 - (pos.y * 0.3 + 0.5); clamp(verticalBias, 0.6, 1.2)
verticalBias(pos) ==
    Clamp(ONE - (MulF(pos[2], Milli(300)) + Milli(500)), Milli(600), Milli(1200))

\* float horizontalScale = 1.0 + (1.0 - abs(pos.y)) * 0.15;
horizontalScale(pos) == ONE + MulF(ONE - Abs(pos[2]), Milli(150))

noiseInput(pos, u_noiseScale, slowTime) ==
    <<MulF(MulF(pos[1], u_noiseScale), horizontalScale(pos)),
      MulF(MulF(pos[2], u_noiseScale), Milli(700)),
      MulF(MulF(pos[3], u_noiseScale), horizontalScale(pos)),
      slowTime>>

detailInput(pos, u_noiseScale, slowTime) ==
    <<MulF(MulF(pos[1], u_noiseScale), Milli(2500)),
      MulF(MulF(pos[2], u_noiseScale), Milli(2500)),
      MulF(MulF(pos[3], u_noiseScale), Milli(2500)),
      MulF(slowTime, Milli(1300))>>

\* primaryNoise = fbm(noiseInput, 3) with its octave samples; the detail sample
vs4Samples(pos, u_noiseScale, slowTime) ==
    [primary |-> fbmSum(noiseInput(pos, u_noiseScale, slowTime), 3),
     detail  |-> snoise4(detailInput(pos, u_noiseScale, slowTime))]

\* primaryNoise + detailNoise
vs4Weighted(t) == DivF(t.primary.value, t.primary.maxValue) + MulF(t.detail, Milli(150))

\* norm is the value normalize(normal) produced
vertexMain4(position, norm, u_time, u_amplitude, u_noiseScale, u_viscosity) ==
    Only({[samples      |-> t,
           bias         |-> verticalBias(position),
           displacement |-> d,
           newPosition  |-> Displace(position, norm, d),
           v_displacement |-> d,
           varyings     |-> {"v_normal", "v_position", "v_worldPosition",
                             "v_displacement"}] :
          <<t, d>> \in
              {<<t1, vsDisplacement(vs4Weighted(t1), u_amplitude, verticalBias(position))>> :
               t1 \in {vs4Samples(position, u_noiseScale, MulF(u_time, u_viscosity))}}})

---------------------------------------------------------------------------
(* GLSL built-ins of the fragment shaders *)

Sub3(a, b) == <<a[1] - b[1], a[2] - b[2], a[3] - b[3]>>
Neg3(a) == <<-a[1], -a[2], -a[3]>>

\* mix(x, y, a) = x * (1 - a) + y * a
Mix(x, y, a) == MulF(x, ONE - a) + MulF(y, a)
Mix3(x, y, a) == <<Mix(x[1], y[1], a), Mix(x[2], y[2], a), Mix(x[3], y[3], a)>>

\* smoothstep(edge0, edge1, x) = t * t * (3 - 2 t), t = clamp((x - edge0) /
\* (edge1 - edge0), 0, 1); the shaders also call it with edge0 > edge1, where
\* every implementation evaluates the same expression
Smoothstep(edge0, edge1, x) ==
    Only({MulF(MulF(t, t), 3 * ONE - 2 * t) :
          t \in {Clamp(DivF(x - edge0, edge1 - edge0), 0, ONE)}})

\* reflect(I, N) = I - 2 dot(N, I) N
Reflect(I, N) == Only({Sub3(I, Scale3(N, 2 * d)) : d \in {Dot3(N, I)}})

\* log2 of a mantissa m in [1, 2): one bit per squaring; k is the weight of
\* the next bit
RECURSIVE Log2Bits(_, _)
Log2Bits(m, k) ==
    IF k = 0 THEN 0
    ELSE Only({IF sq >= 2 * ONE THEN k + Log2Bits(sq \div 2, k \div 2)
               ELSE Log2Bits(sq, k \div 2) :
               sq \in {(m * m) \div ONE}})

\* log2(x), x > 0
RECURSIVE Log2(_)
Log2(x) ==
    IF x >= 2 * ONE THEN Only({ONE + Log2(h) : h \in {x \div 2}})
    ELSE IF x < ONE THEN Only({Log2(d) - ONE : d \in {x * 2}})
    ELSE Log2Bits(x, ONE \div 2)

\* 2^f for f in [0, 1): a cubic that is exact at both ends (the coefficients
\* are in units of 1 / ONE and add up to ONE)
Exp2Frac(f) == ONE + MulF(f, 8350 + MulF(f, 2713 + MulF(f, 937)))

\* exp2(t); below 2^-14 the result rounds to 0, above 2^16 it is out of range
Exp2(t) ==
    IF t < -14 * ONE THEN 0
    ELSE IF t >= 16 * ONE THEN PosInf
    ELSE Only({IF e >= 0 THEN Exp2Frac(t - e * ONE) * 2^e
               ELSE Exp2Frac(t - e * ONE) \div 2^(-e) :
               e \in {FloorInt(t)}})

\* pow(x, y) = exp2(y * log2(x)) where it is defined
Pow(x, y) == IF x = 0 THEN 0 ELSE Exp2(MulF(y, Log2(x)))

\* pow(x, y) on any float: the result is undefined for x < 0 and for x = 0
\* with y <= 0; undef is what the build produces then
PowU(x, y, undef) ==
    IF x = NaN THEN NaN
    ELSE IF x < 0 \/ (x = 0 /\ y <= 0) THEN undef
    ELSE IF x = PosInf THEN PosInf
    ELSE Pow(x, y)

\* x / y on any float; undef is what the build produces for a division by 0
DivU(x, y, undef) ==
    IF x = NaN \/ y = NaN THEN NaN
    ELSE IF y = 0 THEN undef
    ELSE DivF(x, y)

---------------------------------------------------------------------------
(* ShadingModel: the fragment shader of shaders/fragment.glsl *)

\* fresnel with the power applied to NdotV instead of 1 - NdotV
fresnelInverted(viewDir, normal, power, bias, undef) ==
    Only({IF IsFinite(p) THEN Clamp(bias + MulF(ONE - bias, p), 0, ONE) ELSE undef :
          p \in {PowU(Max2(Dot3(normal, viewDir), 0), power, undef)}})

\* float fresnel(vec3 viewDir, vec3 normal, float power, float bias)
fresnel(viewDir, normal, power, bias, undef) ==
    Only({IF IsFinite(p) THEN Clamp(bias + MulF(ONE - bias, p), 0, ONE) ELSE undef :
          p \in {PowU(ONE - Max2(Dot3(normal, viewDir), 0), power, undef)}})

\* float specular(vec3 lightDir, vec3 viewDir, vec3 normal, float roughness)
specular(lightDir, viewDir, normal, roughness) ==
    Only({Pow(Max2(Dot3(normal, halfDir), 0),
              DivF(ONE, MulF(roughness, roughness) + Milli(1))) :
          halfDir \in {Normalize3(Add3(lightDir, viewDir))}})

\* vec3 environmentGradient(vec3 reflectDir)
environmentGradient(reflectDir) ==
    Only({Add3(Mix3(Mix3(<<Milli(20), Milli(20), Milli(30)>>,
                         <<Milli(40), Milli(45), Milli(60)>>,
                         Smoothstep(0, Milli(500), y)),
                    <<Milli(60), Milli(65), Milli(90)>>,
                    Smoothstep(Milli(500), ONE, y)),
               Scale3(Scale3(<<Milli(80), Milli(70), Milli(50)>>, highlightZone),
                      Milli(500))) :
          <<y, highlightZone>> \in
              {<<y1, MulF(Smoothstep(Milli(600), Milli(900), y1),
                          Smoothstep(Milli(300), 0, Abs(reflectDir[1] - Milli(300))))>> :
               y1 \in {MulF(reflectDir[2], Milli(500)) + Milli(500)}}})

\* the unit vectors of lines 69-74, 110 and 122
fsVectors(in) ==
    Only({[normal      |-> normal,
           viewDir     |-> viewDir,
           reflectDir  |-> Reflect(Neg3(viewDir), normal),
           keyLightDir |-> Normalize3(Sub3(in.u_keyLightPos, in.v_worldPosition)),
           rimLightDir |-> Normalize3(Sub3(in.u_rimLightPos, in.v_worldPosition))] :
          <<normal, viewDir>> \in
              {<<Normalize3(in.v_normal),
                 Normalize3(Sub3(in.u_cameraPosition, in.v_worldPosition))>>}})

\* vec3 absorbedColor = coreColor * (1.0 - depth * u_absorption * 0.5);
absorbedColor(v_displacement, u_absorption) ==
    Only({Scale3(<<Milli(15), Milli(18), Milli(25)>>,
                 ONE - MulF(MulF(depth, u_absorption), Milli(500))) :
          depth \in {Clamp(ONE - Abs(v_displacement) * 2, 0, ONE)}})

\* edgeColor = mix(edgeColor + blueTint, edgeColor + goldTint, angleMix)
edgeColor(normal) ==
    Mix3(Add3(<<Milli(120), Milli(130), Milli(160)>>,
              Scale3(<<Milli(80), Milli(100), Milli(140)>>, Milli(200))),
         Add3(<<Milli(120), Milli(130), Milli(160)>>,
              Scale3(<<Milli(150), Milli(120), Milli(80)>>, Milli(300))),
         MulF(Dot3(normal, <<0, ONE, 0>>), Milli(500)) + Milli(500))

\* keyContribution with the light colour not scaled by u_keyLightIntensity
keyContributionUnscaled(in, g) ==
    Only({Scale3(in.u_keyLightColor, MulF(keyDiffuse, Milli(150)) + keySpec) :
          <<keyDiffuse, keySpec>> \in
              {<<Pow(Max2(Dot3(g.normal, g.keyLightDir), 0), Milli(1500)),
                 MulF(Pow(specular(g.keyLightDir, g.viewDir, g.normal, Milli(150)),
                          2 * ONE),
                      Milli(800))>>}})

\* vec3 keyContribution = u_keyLightColor * u_keyLightIntensity *
\*                        (keyDiffuse * 0.15 + keySpec);
keyContribution(in, g) ==
    Only({Scale3(Scale3(in.u_keyLightColor, in.u_keyLightIntensity),
                 MulF(keyDiffuse, Milli(150)) + keySpec) :
          <<keyDiffuse, keySpec>> \in
              {<<Pow(Max2(Dot3(g.normal, g.keyLightDir), 0), Milli(1500)),
                 MulF(Pow(specular(g.keyLightDir, g.viewDir, g.normal, Milli(150)),
                          2 * ONE),
                      Milli(800))>>}})

\* vec3 rimContribution = u_rimLightColor * u_rimLightIntensity * rimDiffuse *
\*                        rimMask * 0.4;
rimContribution(in, g) ==
    Only({Scale3(Scale3(Scale3(Scale3(in.u_rimLightColor, in.u_rimLightIntensity),
                               rimDiffuse),
                        rimMask),
                 Milli(400)) :
          <<rimDiffuse, rimMask>> \in
              {<<Max2(Dot3(g.normal, g.rimLightDir), 0),
                 Pow(ONE - Max2(Dot3(g.viewDir, g.normal), 0), 3 * ONE)>>}})

\* the terms of the composite (lines 81-131)
fsTerms(in, g, undef) ==
    [absorbedColor   |-> absorbedColor(in.v_displacement, in.u_absorption),
     fresnelTerm     |-> fresnel(g.viewDir, g.normal, in.u_fresnelPower,
                                 in.u_fresnelBias, undef),
     edgeColor       |-> edgeColor(g.normal),
     envColor        |-> environmentGradient(g.reflectDir),
     keyContribution |-> keyContribution(in, g),
     rimContribution |-> rimContribution(in, g),
     surfaceVar      |-> MulF(in.v_displacement, Milli(500)) + Milli(500)]

\* finalColor of lines 136-152, before tone mapping
fsComposite(t) ==
    Scale3(Add3(Add3(Add3(Add3(t.absorbedColor,
                               Scale3(Scale3(t.envColor, t.fresnelTerm), Milli(600))),
                          Scale3(Scale3(Scale3(t.edgeColor, t.fresnelTerm),
                                        t.fresnelTerm),
                                 Milli(400))),
                     t.keyContribution),
                t.rimContribution),
           Milli(950) + MulF(t.surfaceVar, Milli(100)))

\* finalColor / (finalColor + vec3(1.0)), then pow(finalColor, vec3(1.05))
reinhardDenominator(c) == c + ONE
fsToneMap(c, undef) == PowU(DivU(c, reinhardDenominator(c), undef), Milli(1050), undef)

\* the first argument of every pow call of the fragment shader: fresnel (line
\* 31), specular (39), keyDiffuse (112), keySpec (115), rimMask (127) and the
\* three channels of the tone mapping (161)
fsPowArgs(g, acc, undef) ==
    [fresnel    |-> ONE - Max2(Dot3(g.normal, g.viewDir), 0),
     specular   |-> Max2(Dot3(g.normal, Normalize3(Add3(g.keyLightDir, g.viewDir))), 0),
     keyDiffuse |-> Max2(Dot3(g.normal, g.keyLightDir), 0),
     keySpec    |-> specular(g.keyLightDir, g.viewDir, g.normal, Milli(150)),
     rimMask    |-> ONE - Max2(Dot3(g.viewDir, g.normal), 0),
     toneMap    |-> <<DivU(acc[1], acc[1] + ONE, undef), DivU(acc[2], acc[2] + ONE, undef),
                      DivU(acc[3], acc[3] + ONE, undef)>>]

\* void main() of the fragment shader: gl_FragColor.rgb with the terms and
\* the accumulated colour it was computed from
fragmentMain(in, undef) ==
    Only({[vectors     |-> ta[1],
           terms       |-> ta[2],
           accumulated |-> ta[3],
           powArgs     |-> fsPowArgs(ta[1], ta[3], undef),
           color       |-> <<fsToneMap(ta[3][1], undef), fsToneMap(ta[3][2], undef),
                             fsToneMap(ta[3][3], undef)>>] :
          ta \in {<<g, t, fsComposite(t)>> :
                  <<g, t>> \in {<<g1, fsTerms(in, g1, undef)>> : g1 \in {fsVectors(in)}}}})

---------------------------------------------------------------------------
(* ShadingModel: the fragment shader of main.js (and of part_000) *)

\* roughness^4 in units of 10^-12: a = roughness * roughness, a2 = a * a
\* (roughness <= 0.2, so that a2 stays inside 32 bits)
ggxA2(roughness) == Only({a * a : a \in {(roughness * roughness) \div 144}})

\* NdotH * NdotH * (a2 - 1.0) + 1.0 in units of 10^-6
ggxD(NdotH, roughness) ==
    Only({1000000 - n2 + ((n2 \div 1000) * (ggxA2(roughness) \div 1000)) \div 1000000 :
          n2 \in {(NdotH * NdotH) \div 144}})

\* d * d in units of 10^-6, for d in units of 10^-6
SquareMicro(d) ==
    Only({s[1] * s[1] + (2 * s[1] * s[2]) \div 1000 + (s[2] * s[2]) \div 1000000 :
          s \in {<<d \div 1000, d % 1000>>}})

\* PI * d * d + 0.0001 in units of 10^-6
ggxDenominator(NdotH, roughness) ==
    (SquareMicro(ggxD(NdotH, roughness)) * 355) \div 113 + 100

\* a2 / (PI * d * d + 0.0001) in units of 10^-6
D_GGXMicro(NdotH, roughness) == ggxA2(roughness) \div ggxDenominator(NdotH, roughness)

\* float D_GGX(float NdotH, float roughness)
D_GGX(NdotH, roughness) == (D_GGXMicro(NdotH, roughness) * 12) \div 1000

\* vec3 F_Schlick(float VdotH, vec3 F0), one channel
F_Schlick1(VdotH, F0) == F0 + MulF(ONE - F0, Pow(Max2(ONE - VdotH, 0), 5 * ONE))
F_Schlick(VdotH, F0) ==
    <<F_Schlick1(VdotH, F0[1]), F_Schlick1(VdotH, F0[2]), F_Schlick1(VdotH, F0[3])>>

\* the denominators of the tone mapping: c * (2.2 * c + 0.58) + 0.13 in
\* main.js, c + 0.5 in part_000
filmicDenominator(c) ==
    IF c = NaN THEN NaN ELSE MulF(c, MulF(Milli(2200), c) + Milli(580)) + Milli(130)
filmicDenominator0(c) == IF c = NaN THEN NaN ELSE c + DivInt(ONE, 2)

\* clamp((c * (2.4 * c + 0.025)) / (c * (2.2 * c + 0.58) + 0.13), 0.0, 1.0)
jsToneMap(c, undef) ==
    IF c = NaN THEN NaN
    ELSE Only({IF q = NaN THEN NaN ELSE Clamp(q, 0, ONE) :
               q \in {DivU(MulF(c, MulF(Milli(2400), c) + Milli(25)),
                           filmicDenominator(c), undef)}})

\* c / (c + 0.5) of part_000
jsToneMap0(c, undef) == DivU(c, filmicDenominator0(c), undef)

\* atan(t) for 0 <= t <= 1: t * (PI/4 + 0.273 * (1 - t)), within 0.004
AtanUnit(t) == MulF(t, DivInt(PI, 4) + MulF(Milli(273), ONE - t))

\* atan(y, x), in (-PI, PI]; undefined when x and y are both 0
Atan(y, x, undef) ==
    IF x = 0 /\ y = 0 THEN undef
    ELSE Only({IF y >= 0 THEN q ELSE -q :
               q \in {IF x >= 0 THEN b ELSE PI - b :
                      b \in {IF Abs(x) >= Abs(y) THEN AtanUnit(DivF(Abs(y), Abs(x)))
                             ELSE DivInt(PI, 2) - AtanUnit(DivF(Abs(x), Abs(y)))}}})

\* a * b per component
Mul3(a, b) == <<MulF(a[1], b[1]), MulF(a[2], b[2]), MulF(a[3], b[3])>>

\* the four zones of sampleEnv at the angular coordinates x, y
envZones(x, y) ==
    [topZone   |-> Smoothstep(Milli(450), Milli(920), y),
     leftWarm  |-> MulF(Smoothstep(DivInt(ONE, 2), Milli(80), x),
                        Smoothstep(0, DivInt(ONE, 2), y)),
     rightBlue |-> MulF(Smoothstep(DivInt(ONE, 2), Milli(950), x),
                        Smoothstep(Milli(100), Milli(600), y)),
     topHL     |-> Smoothstep(Milli(720), Milli(990), y)]

\* vec3 sampleEnv(vec3 R)
sampleEnv(R, undef) ==
    Only({IF a = NaN THEN <<NaN, NaN, NaN>>
          ELSE Only({Add3(Add3(<<Milli(15), Milli(15), Milli(25)>>,
                               Scale3(<<Milli(600), Milli(450), Milli(180)>>, z.topZone)),
                          Add3(Add3(Scale3(Scale3(<<Milli(600), Milli(350), Milli(100)>>,
                                                  z.leftWarm), Milli(800)),
                                    Scale3(Scale3(<<Milli(120), Milli(250), Milli(650)>>,
                                                  z.rightBlue), Milli(600))),
                               Scale3(Scale3(<<ONE, Milli(940), Milli(800)>>, z.topHL),
                                      Milli(900)))) :
                     z \in {envZones(DivF(a, 2 * PI) + DivInt(ONE, 2),
                                     DivInt(R[2], 2) + DivInt(ONE, 2))}}) :
          a \in {Atan(R[3], R[1], undef)}})

\* N, V, R, NdotV and edgeFactor of main
jsVectors(in) ==
    Only({[N |-> nv[1], V |-> nv[2], R |-> Reflect(Neg3(nv[2]), nv[1]),
           NdotV |-> Max2(Dot3(nv[1], nv[2]), 0),
           edgeFactor |-> ONE - Max2(Dot3(nv[1], nv[2]), 0),
           xPos |-> in.v_localPosition[1], yPos |-> in.v_localPosition[2]] :
          nv \in {<<Normalize3(in.v_smoothNormal),
                    Normalize3(Sub3(in.u_cameraPosition, in.v_worldPosition))>>}})

\* one specular lobe: N.H, N.L and V.H for the light direction L
jsLobe(g, L) ==
    Only({[NdotH |-> Max2(Dot3(g.N, H), 0), NdotL |-> Max2(Dot3(g.N, L), 0),
           VdotH |-> Max2(Dot3(g.V, H), 0)] :
          H \in {Normalize3(Add3(g.V, L))}})

\* internalColor of main.js
jsInternalColor(g) ==
    Only({Mix3(<<Milli(10), Milli(20), Milli(50)>>,
               Mix3(<<Milli(250), Milli(160), Milli(50)>>,
                    <<Milli(20), Milli(60), Milli(180)>>,
                    Smoothstep(Milli(600), -DivInt(ONE, 2), g.yPos)),
               DivInt(ONE, 2) + DivInt(depthFade, 2)) :
          depthFade \in {Pow(g.NdotV, Milli(800))}})

\* spec1 and spec2 of main.js
jsSpec1(g) ==
    Only({Scale3(Mul3(Scale3(Scale3(F_Schlick(l.VdotH, <<ONE, Milli(920), Milli(750)>>),
                                    D_GGX(l.NdotH, Milli(25))), l.NdotL),
                      <<ONE, Milli(950), Milli(850)>>), Milli(1200)) :
          l \in {jsLobe(g, Normalize3(<<-Milli(550), Milli(800), Milli(350)>>))}})
jsSpec2(g) ==
    Only({Scale3(Scale3(<<Milli(900), Milli(850), Milli(700)>>,
                        MulF(D_GGX(l.NdotH, Milli(50)), l.NdotL)), Milli(250)) :
          l \in {jsLobe(g, Normalize3(<<DivInt(ONE, 2), DivInt(ONE, 2), DivInt(ONE, 2)>>))}})

\* the terms of the composite of main.js, lines 325-393
jsTerms(g, undef) ==
    Only({[internalColor |-> jsInternalColor(g),
           envReflection |->
               IF env[1] = NaN THEN env
               ELSE Scale3(Scale3(env, Pow(e, 2 * ONE)), Milli(1200)),
           rimColor |->
               Scale3(<<ONE, Milli(960), Milli(880)>>,
                      MulF(MulF(Pow(e, 8 * ONE),
                                Smoothstep(-Milli(200), Milli(350), g.yPos)),
                           Milli(2500))),
           leftGlow |->
               Scale3(<<ONE, Milli(650), Milli(250)>>,
                      MulF(MulF(MulF(Smoothstep(Milli(300), -Milli(700), g.xPos), lh),
                                Pow(e, Milli(1800))), Milli(1800))),
           leftWarm |->
               Scale3(<<Milli(600), Milli(350), Milli(100)>>,
                      MulF(MulF(MulF(Smoothstep(DivInt(ONE, 2), -Milli(900), g.xPos), lh),
                                Pow(e, Milli(2500))), Milli(800))),
           rightGlow |->
               Scale3(<<Milli(150), Milli(350), Milli(700)>>,
                      MulF(MulF(Smoothstep(-Milli(100), Milli(700), g.xPos),
                                MulF(Smoothstep(-Milli(300), Milli(400), g.yPos),
                                     ONE - Smoothstep(DivInt(ONE, 2), Milli(900), g.yPos))),
                           Pow(e, Milli(2200)))),
           spec1 |-> jsSpec1(g),
           spec2 |-> jsSpec2(g),
           edgeHighlight |->
               Scale3(<<Milli(600), Milli(500), Milli(320)>>,
                      MulF(Pow(e, Milli(3500)), Milli(350)))] :
          <<e, lh, env>> \in {<<g.edgeFactor,
                               Smoothstep(-Milli(600), DivInt(ONE, 2), g.yPos),
                               sampleEnv(g.R, undef)>>}})

\* finalColor before the tone mapping, lines 396-404
jsComposite(t) ==
    IF t.envReflection[1] = NaN THEN <<NaN, NaN, NaN>>
    ELSE Add3(Add3(Add3(Scale3(t.internalColor, Milli(350)), t.envReflection),
                   Add3(t.rimColor, t.leftGlow)),
              Add3(Add3(Add3(t.leftWarm, t.rightGlow), Add3(t.spec1, t.spec2)),
                   t.edgeHighlight))

\* the tone mapping and the warmth exponent of one channel, lines 408 and 411
jsChannel(c, y, undef) == PowU(jsToneMap(c, undef), y, undef)

\* void main() of the fragment shader of main.js
jsMain(in, undef) ==
    Only({[vectors      |-> ta[1],
           terms        |-> ta[2],
           accumulated  |-> ta[3],
           denominators |-> <<filmicDenominator(ta[3][1]), filmicDenominator(ta[3][2]),
                              filmicDenominator(ta[3][3])>>,
           color        |-> <<jsChannel(ta[3][1], Milli(900), undef),
                              jsChannel(ta[3][2], Milli(950), undef),
                              jsChannel(ta[3][3], ONE, undef)>>] :
          ta \in {<<g, t, jsComposite(t)>> :
                  <<g, t>> \in {<<g1, jsTerms(g1, undef)>> : g1 \in {jsVectors(in)}}}})

\* glassCore of part_000
jsGlassCore0(g) ==
    Only({Scale3(Mix3(<<Milli(150), Milli(90), Milli(25)>>,
                      <<Milli(15), Milli(40), Milli(120)>>,
                      Smoothstep(DivInt(ONE, 2), -Milli(600), g.yPos)),
                 Milli(400) + MulF(glassDepth, Milli(600))) :
          glassDepth \in {Pow(g.NdotV, Milli(1200))}})

\* spec of part_000
jsSpec0(g) ==
    Only({Scale3(Mul3(Scale3(Scale3(F_Schlick(l.VdotH, <<Milli(950), Milli(880), Milli(700)>>),
                                    D_GGX(l.NdotH, Milli(18))), l.NdotL),
                      <<ONE, Milli(960), Milli(880)>>), Milli(900)) :
          l \in {jsLobe(g, Normalize3(<<-DivInt(ONE, 2), Milli(750), Milli(400)>>))}})

\* the terms of the composite of part_000, lines 325-369
jsTerms0(g, undef) ==
    Only({[glassCore |-> jsGlassCore0(g),
           reflection |->
               IF env[1] = NaN THEN env
               ELSE Scale3(Scale3(env, Pow(f, Milli(2200))), Milli(850)),
           rimLight |->
               Scale3(<<ONE, Milli(970), Milli(900)>>,
                      MulF(MulF(Pow(f, 10 * ONE),
                                Smoothstep(-Milli(150), Milli(400), g.yPos)),
                           Milli(1800))),
           leftLight |->
               Scale3(<<Milli(900), Milli(550), Milli(180)>>,
                      MulF(MulF(MulF(Smoothstep(Milli(200), -Milli(650), g.xPos),
                                     Smoothstep(-DivInt(ONE, 2), Milli(450), g.yPos)),
                                Pow(f, 2 * ONE)), Milli(1400))),
           rightLight |->
               Scale3(<<Milli(120), Milli(280), Milli(550)>>,
                      MulF(MulF(MulF(Smoothstep(-Milli(50), Milli(600), g.xPos),
                                     MulF(Smoothstep(-Milli(200), Milli(350), g.yPos),
                                          ONE - Smoothstep(DivInt(ONE, 2), Milli(850), g.yPos))),
                                Pow(f, Milli(2500))), Milli(800))),
           spec |-> jsSpec0(g),
           edgeColor |->
               Scale3(<<DivInt(ONE, 2), Milli(400), Milli(250)>>,
                      MulF(Pow(f, 4 * ONE), Milli(300)))] :
          <<f, env>> \in {<<g.edgeFactor, sampleEnv(g.R, undef)>>}})

\* color before the tone mapping, lines 372-378
jsComposite0(t) ==
    IF t.reflection[1] = NaN THEN <<NaN, NaN, NaN>>
    ELSE Add3(Add3(Add3(Scale3(t.glassCore, Milli(250)), t.reflection),
                   Add3(t.rimLight, t.leftLight)),
              Add3(Add3(t.rightLight, t.spec), t.edgeColor))

\* the tone mapping and the exponent of one channel, lines 381-382
jsChannel0(c, y, undef) == PowU(jsToneMap0(c, undef), y, undef)

\* void main() of the fragment shader of part_000
jsMain0(in, undef) ==
    Only({[vectors      |-> ta[1],
           terms        |-> ta[2],
           accumulated  |-> ta[3],
           denominators |-> <<filmicDenominator0(ta[3][1]), filmicDenominator0(ta[3][2]),
                              filmicDenominator0(ta[3][3])>>,
           color        |-> <<jsChannel0(ta[3][1], Milli(920), undef),
                              jsChannel0(ta[3][2], Milli(950), undef),
                              jsChannel0(ta[3][3], ONE, undef)>>] :
          ta \in {<<g, t, jsComposite0(t)>> :
                  <<g, t>> \in {<<g1, jsTerms0(g1, undef)>> : g1 \in {jsVectors(in)}}}})

---------------------------------------------------------------------------
(* Starfield: the background fragment shader of main.js.  Cell ids are     *)
(* whole numbers (floor(uv * scale) plus whole offsets, times 2.0, 3.0 and *)
(* 4.0) and are plain integers; scale is a whole number too.               *)

\* a * b for floats a, b >= 0 whose digits do not fit MulF
MulWide(a, b) ==
    (a \div ONE) * (b \div ONE) * ONE + (a \div ONE) * (b % ONE)
        + (a % ONE) * (b \div ONE) + ((a % ONE) * (b % ONE)) \div ONE

\* p = fract(p * vec2(234.34, 435.345)) for a whole p
hashFract(p) ==
    <<(((p[1] % 100) * 23434) % 100) * 120, (((p[2] % 1000) * 435345) % 1000) * 12>>

\* p += dot(p, p + 34.23); p.x * p.y
hashProduct(p) ==
    Only({MulWide(q[1] + q[3], q[2] + q[3]) :
          q \in {<<f[1], f[2], MulF(f[1], f[1] + Milli(34230))
                                   + MulF(f[2], f[2] + Milli(34230))>> :
                 f \in {hashFract(p)}}})

\* hash without its last fract
hashUnwrapped(p) == hashProduct(p)

\* float hash(vec2 p)
hash(p) == Fract(hashProduct(p))

\* length of a vec2
Length2(a) == Sqrt(MulF(a[1], a[1]) + MulF(a[2], a[2]))

\* d * 20.0 + 0.12
starGlowDenominator(d) == d * 20 + Milli(120)

\* d = length(gv - offset - starPos), starPos = vec2(n, hash(cellId + 1.0)) - 0.5
starDistance(gv, cellId, offset, n) ==
    Length2(<<gv[1] - offset[1] * ONE - (n - DivInt(ONE, 2)),
              gv[2] - offset[2] * ONE
                  - (hash(<<cellId[1] + 1, cellId[2] + 1>>) - DivInt(ONE, 2))>>)

\* twinkle = 0.75 + (sin(time * twinkleSpeed + twinklePhase) * 0.5 + 0.5) * 0.25
starTwinkle(cellId, time) ==
    Only({Milli(750) + DivInt(DivInt(Sin(a), 2) + DivInt(ONE, 2), 4) :
          a \in {MulF(time, Milli(80) + MulF(hash(<<cellId[1] * 2, cellId[2] * 2>>),
                                             Milli(200)))
                 + MulF(hash(<<cellId[1] * 3, cellId[2] * 3>>), Milli(6280))}})

\* brightness = hash(cellId * 4.0) * 0.4 + 0.3
starBrightness(cellId) == MulF(hash(<<cellId[1] * 4, cellId[2] * 4>>), Milli(400)) + Milli(300)

\* one pass of the loop body of stars for the cell id + offset: the glow added
\* to star, the distance d and the quotient handed to pow; nothing is added
\* where n <= 0.93
starCell(gv, cellId, offset, time, baseIntensity) ==
    Only({IF n <= Milli(930) THEN [lit |-> FALSE, glow |-> 0]
          ELSE Only({[lit |-> TRUE, glow |-> Pow(dq[2], Milli(1500)),
                      d |-> dq[1], denominator |-> starGlowDenominator(dq[1]),
                      powArg |-> dq[2]] :
                     dq \in {<<d, DivF(MulF(MulF(baseIntensity, starBrightness(cellId)),
                                            starTwinkle(cellId, time)),
                                       starGlowDenominator(d))>> :
                             d \in {starDistance(gv, cellId, offset, n)}}}) :
          n \in {hash(cellId)}})

\* the offsets in the order of the two loops
starOffsets ==
    <<<<-1, -1>>, <<0, -1>>, <<1, -1>>, <<-1, 0>>, <<0, 0>>, <<1, 0>>,
      <<-1, 1>>, <<0, 1>>, <<1, 1>>>>

\* the nine passes of the loops of stars(uv, scale, time, baseIntensity)
starCells(uv, scale, time, baseIntensity) ==
    Only({[k \in 1..9 |->
              starCell(gi[1], <<gi[2][1] + starOffsets[k][1], gi[2][2] + starOffsets[k][2]>>,
                       starOffsets[k], time, baseIntensity)] :
          gi \in {<<<<Fract(uv[1] * scale) - DivInt(ONE, 2),
                      Fract(uv[2] * scale) - DivInt(ONE, 2)>>,
                    <<FloorInt(uv[1] * scale), FloorInt(uv[2] * scale)>>>>}})

RECURSIVE starSum(_, _)
starSum(cells, k) == IF k = 0 THEN 0 ELSE starSum(cells, k - 1) + cells[k].glow

\* float stars(vec2 uv, float scale, float time, float baseIntensity)
stars(uv, scale, time, baseIntensity) ==
    Only({[star |-> starSum(cells, 9), cells |-> cells] :
          cells \in {starCells(uv, scale, time, baseIntensity)}})

\* sunDist * 1.8 + 0.4 and sunDist * 0.9 + 0.8
sunGlowDenominator(sunDist) == MulF(sunDist, Milli(1800)) + Milli(400)
ambientWarmthDenominator(sunDist) == MulF(sunDist, Milli(900)) + Milli(800)

\* sunGlow = pow(1.0 / (sunDist * 1.8 + 0.4), 1.6) * 0.35
sunGlow(sunDist) ==
    MulF(Pow(DivF(ONE, sunGlowDenominator(sunDist)), Milli(1600)), Milli(350))
\* ambientWarmth = pow(1.0 / (sunDist * 0.9 + 0.8), 1.2) * 0.12
ambientWarmth(sunDist) ==
    MulF(Pow(DivF(ONE, ambientWarmthDenominator(sunDist)), Milli(1200)), Milli(120))

\* color before the stars are added, lines 108-139
starfieldSky(vUv, sunDist) ==
    Add3(Mix3(Add3(Add3(Mix3(Mix3(<<Milli(8), Milli(8), Milli(18)>>,
                                  <<Milli(15), Milli(15), Milli(35)>>,
                                  Smoothstep(0, DivInt(ONE, 2), vUv[2])),
                             <<Milli(35), Milli(30), Milli(60)>>,
                             Smoothstep(DivInt(ONE, 2), ONE, vUv[2])),
                        Scale3(Mix3(<<Milli(250), Milli(120), Milli(40)>>,
                                    <<Milli(450), Milli(280), Milli(80)>>,
                                    Smoothstep(Milli(1200), Milli(300), sunDist)),
                               sunGlow(sunDist))),
                   Scale3(<<Milli(180), Milli(80), Milli(20)>>, ambientWarmth(sunDist))),
              <<Milli(60), Milli(35), Milli(100)>>,
              MulF(MulF(ONE - vUv[1], vUv[2]), Milli(450))),
         Scale3(<<Milli(20), Milli(25), Milli(55)>>,
                DivInt(MulF(Smoothstep(Milli(400), Milli(900), vUv[2]),
                            ONE - DivInt(vUv[1], 2)), 2)))

\* the two star layers; with an aspect that is not a number or not finite
\* every hash(cellId) is NaN, no comparison n > 0.93 holds and both are 0.0
starLayers(vUv, u_time, aspect) ==
    IF ~IsFinite(aspect) THEN <<[star |-> 0, cells |-> <<>>], [star |-> 0, cells |-> <<>>]>>
    ELSE Only({<<stars(uv, 28, u_time, Milli(400)),
                 stars(<<uv[1] + 100 * ONE, uv[2] + 100 * ONE>>, 45,
                       MulF(u_time, Milli(750)), Milli(200))>> :
               uv \in {<<MulF(vUv[1], aspect), vUv[2]>>}})

\* void main() of the starfield fragment shader; u_resolution in whole pixels
starfieldMain(vUv, u_time, u_resolution, undef) ==
    Only({[aspect       |-> sl[3],
           sunDist      |-> sl[1],
           denominators |-> [aspect |-> u_resolution[2],
                             sunGlow |-> sunGlowDenominator(sl[1]),
                             ambientWarmth |-> ambientWarmthDenominator(sl[1])],
           layers       |-> sl[2],
           color        |->
               Add3(starfieldSky(vUv, sl[1]),
                    Add3(Scale3(<<Milli(900), Milli(880), Milli(820)>>,
                                MulF(MulF(sl[2][1].star, Milli(400)), sl[4])),
                         Scale3(<<Milli(820), Milli(850), Milli(900)>>,
                                MulF(MulF(sl[2][2].star, Milli(300)), sl[4]))))] :
          sl \in {<<sunDist, starLayers(vUv, u_time, aspect), aspect,
                    ONE - Smoothstep(DivInt(ONE, 2), Milli(1500), 3 * sunGlow(sunDist))>> :
                  <<sunDist, aspect>> \in
                      {<<Length2(<<vUv[1] - Milli(700), vUv[2] + Milli(200)>>),
                         DivU(u_resolution[1], u_resolution[2], undef)>>}}})

---------------------------------------------------------------------------
(* SpecNoise: the noise functions called on a grid of coordinates *)

\* coordinates are the quarter units -NoiseSteps/4 .. NoiseSteps/4
NoiseSteps == 3
NoiseGrid == {DivInt(k * ONE, 4) : k \in -NoiseSteps..NoiseSteps}
\* fbm is called on the corners of a cell and with 0..MaxOctaves octaves
FbmGrid == {-DivInt(ONE, 4), DivInt(ONE, 2), ONE}
MaxOctaves == 5

\* whole lattice coordinates floor(v + dot(v, C)) on both sides of 0, and the
\* wrapped coordinates added to a hash value before the next permute
MaxLattice == 600
LatticeCoordinates == -MaxLattice..MaxLattice
WrappedCoordinates == {0, 1, 144, 287, 288}

\* coordinates of magnitude one to tens, as the vertex shaders pass them
\* (position * scale + time offsets), in units of 1/ONE
RangePoints3 ==
    {<<1000, 1000, -5000>>, <<23209, 23395, -7531>>, <<55000, -197000, 85000>>,
     <<-285000, -129000, -315000>>}
RangePoints4 ==
    {<<-21923, -21654, 2021, -5462>>, <<1347, 13347, 1371, 20915>>,
     <<862, 300898, 48898, -195403>>, <<351108, -200570, 75458, 346922>>}

NoiseInit ==
    /\ frame = Idle
    /\ frames = <<>>
    /\ app = Idle
    /\ vert = Idle
    /\ frag = Idle
    /\ noiseCall \in
        [fn : {"snoise3"}, pc : {"call"},
         v : (NoiseGrid \X NoiseGrid \X NoiseGrid) \cup RangePoints3]
        \cup [fn : {"snoise4"}, pc : {"call"},
              v : (NoiseGrid \X NoiseGrid \X NoiseGrid \X NoiseGrid) \cup RangePoints4]
        \cup [fn : {"fbm"}, pc : {"call"}, octaves : 0..MaxOctaves,
              v : FbmGrid \X FbmGrid \X FbmGrid \X FbmGrid]
        \cup [fn : {"mod289"}, pc : {"call"}, x : LatticeCoordinates]
        \cup [fn : {"permute"}, pc : {"call"}, x : 0..288, offset : {0, 1},
              coordinate : WrappedCoordinates]

Snoise3Call ==
    /\ UNCHANGED <<vert, frag, frame, frames, app>>
    /\ noiseCall.pc = "call" /\ noiseCall.fn = "snoise3"
    /\ \E x0 \in {Offset3(noiseCall.v)} :
           noiseCall' = [fn |-> "snoise3", pc |-> "done", v |-> noiseCall.v,
                         x0 |-> x0, i1 |-> CornerI1_3(x0), i2 |-> CornerI2_3(x0),
                         result |-> snoise3(noiseCall.v)]

Snoise4Call ==
    /\ UNCHANGED <<vert, frag, frame, frames, app>>
    /\ noiseCall.pc = "call" /\ noiseCall.fn = "snoise4"
    /\ \E x0 \in {Offset4(noiseCall.v)} :
           noiseCall' = [fn |-> "snoise4", pc |-> "done", v |-> noiseCall.v,
                         x0 |-> x0, i0 |-> Rank4(x0), i1 |-> CornerI1_4(x0),
                         i2 |-> CornerI2_4(x0), i3 |-> CornerI3_4(x0),
                         result |-> snoise4(noiseCall.v)]

FbmCall ==
    /\ UNCHANGED <<vert, frag, frame, frames, app>>
    /\ noiseCall.pc = "call" /\ noiseCall.fn = "fbm"
    /\ \E r \in {fbmSum(noiseCall.v, noiseCall.octaves)} :
           \E out \in IF r.maxValue = 0 THEN Undefined
                      ELSE {DivF(r.value, r.maxValue)} :
               noiseCall' = [fn |-> "fbm", pc |-> "done", v |-> noiseCall.v,
                             octaves |-> noiseCall.octaves, samples |-> r.samples,
                             value |-> r.value, maxValue |-> r.maxValue,
                             result |-> out]

\* i = mod289(i) on one lattice coordinate
Mod289Call ==
    /\ UNCHANGED <<vert, frag, frame, frames, app>>
    /\ noiseCall.pc = "call" /\ noiseCall.fn = "mod289"
    /\ noiseCall' = [fn |-> "mod289", pc |-> "done", x |-> noiseCall.x,
                     result |-> mod289(noiseCall.x)]

\* one round permute(x + offset + coordinate) of the hashing
PermuteCall ==
    /\ UNCHANGED <<vert, frag, frame, frames, app>>
    /\ noiseCall.pc = "call" /\ noiseCall.fn = "permute"
    /\ noiseCall' = [fn |-> "permute", pc |-> "done", x |-> noiseCall.x,
                     offset |-> noiseCall.offset, coordinate |-> noiseCall.coordinate,
                     result |-> permute(noiseCall.x + noiseCall.offset
                                            + noiseCall.coordinate)]

NoiseNext == Snoise3Call \/ Snoise4Call \/ FbmCall \/ Mod289Call \/ PermuteCall

SpecNoise == NoiseInit /\ [][NoiseNext]_vars

---------------------------------------------------------------------------
(* SpecDeform: the two vertex shaders run on rest vertices *)

\* rest positions have y = -MaxPosY/2 .. MaxPosY/2 in half units; the mesh of
\* createGeometry spans y = -1.5 .. 1.5
MaxPosY == 6
RestPositions ==
    {<<xz[1], DivInt(k * ONE, 2), xz[2]>> :
        k \in -MaxPosY..MaxPosY,
        xz \in {<<0, 0>>, <<DivInt(ONE, 2), -DivInt(3 * ONE, 4)>>}}
\* rest normals: two directions and the zero vector
RestNormals == {<<0, ONE, 0>>, <<ONE, -ONE, DivInt(ONE, 2)>>, <<0, 0, 0>>}
Times == {0, ONE, DivInt(5 * ONE, 2), 60 * ONE, 1000 * ONE}
Amplitudes == {0, DivInt(ONE, 4), ONE}
NoiseScales == {ONE}
Viscosities == {DivInt(ONE, 10)}

DeformInit ==
    /\ frame = Idle
    /\ frames = <<>>
    /\ app = Idle
    /\ noiseCall = Idle
    /\ frag = Idle
    /\ vert \in
        [pc : {"call"}, shader : {"main.js"}, position : RestPositions,
         normal : RestNormals, u_time : Times, u_amplitude : Amplitudes]
        \cup [pc : {"call"}, shader : {"fragment.glsl"}, position : RestPositions,
              normal : RestNormals, u_time : Times, u_amplitude : Amplitudes,
              u_noiseScale : NoiseScales, u_viscosity : Viscosities]

\* the vertex shader of main.js on one vertex
VertexMain ==
    /\ vert.pc = "call" /\ vert.shader = "main.js"
    /\ \E norm \in normalize(vert.normal) :
       vert' = [pc |-> "done", shader |-> vert.shader, position |-> vert.position,
                normal |-> vert.normal, u_time |-> vert.u_time,
                u_amplitude |-> vert.u_amplitude,
                out |-> vertexMain(vert.position, norm, vert.u_time,
                                   vert.u_amplitude)]
    /\ UNCHANGED <<noiseCall, frag, frame, frames, app>>

\* the vertex shader of shaders/fragment.glsl on one vertex
VertexMain4 ==
    /\ vert.pc = "call" /\ vert.shader = "fragment.glsl"
    /\ \E norm \in normalize(vert.normal) :
       vert' = [pc |-> "done", shader |-> vert.shader, position |-> vert.position,
                normal |-> vert.normal, u_time |-> vert.u_time,
                u_amplitude |-> vert.u_amplitude,
                u_noiseScale |-> vert.u_noiseScale, u_viscosity |-> vert.u_viscosity,
                out |-> vertexMain4(vert.position, norm, vert.u_time,
                                    vert.u_amplitude, vert.u_noiseScale,
                                    vert.u_viscosity)]
    /\ UNCHANGED <<noiseCall, frag, frame, frames, app>>

DeformNext == VertexMain \/ VertexMain4

SpecDeform == DeformInit /\ [][DeformNext]_vars

---------------------------------------------------------------------------
(* SpecShade: fresnel and the fragment shader of shaders/fragment.glsl run *)
(* on one fragment                                                         *)

\* unit vectors whose components are exact
UnitVectors ==
    {<<0, 0, ONE>>, <<0, 0, -ONE>>, <<0, ONE, 0>>,
     <<Milli(600), Milli(800), 0>>, <<0, -Milli(600), Milli(800)>>}
FresnelPowers == {DivInt(ONE, 2), ONE, 3 * ONE, 5 * ONE}
FresnelBiases == {0, Milli(40), DivInt(ONE, 2), ONE}

\* interpolated normals (not normalised) and world positions of fragments
FragNormals == {<<0, 0, ONE>>, <<0, ONE, 0>>, <<Milli(600), Milli(800), 0>>,
                <<ONE, -ONE, DivInt(ONE, 2)>>}
FragPositions == {<<0, 0, ONE>>, <<DivInt(ONE, 2), -DivInt(ONE, 2), 0>>}
\* v_displacement as the vertex stage may deliver it, and far outside
FragDisplacements == {0, Milli(300), -Milli(100), -25 * ONE}
LightIntensities == {<<0, 0>>, <<Milli(1500), ONE>>, <<-ONE, DivInt(ONE, 2)>>}
Absorptions == {0, Milli(800), 3 * ONE, 200 * ONE}

FragInputs ==
    [v_normal : FragNormals, v_worldPosition : FragPositions,
     v_displacement : FragDisplacements,
     u_cameraPosition : {<<0, 0, 5 * ONE>>},
     u_keyLightPos : {<<3 * ONE, 4 * ONE, 5 * ONE>>},
     u_rimLightPos : {<<-3 * ONE, 2 * ONE, -4 * ONE>>},
     u_keyLightColor : {<<ONE, Milli(950), Milli(900)>>},
     u_rimLightColor : {<<Milli(600), Milli(700), ONE>>},
     u_keyLightIntensity : {l[1] : l \in LightIntensities},
     u_rimLightIntensity : {l[2] : l \in LightIntensities},
     u_fresnelPower : {3 * ONE}, u_fresnelBias : {Milli(40), DivInt(ONE, 2)},
     u_absorption : Absorptions]

\* the vectors that reach normalize at each of its call sites: the rest normal
\* (vertex shaders), the interpolated normal, camera - worldPosition,
\* lightPos - worldPosition and the half vector lightDir + viewDir
NormalizeArgs ==
    {<<"normal", a>> : a \in RestNormals}
    \cup {<<"v_normal", a>> : a \in FragNormals \cup {<<0, 0, 0>>}}
    \cup {<<"u_cameraPosition - v_worldPosition", Sub3(<<0, 0, 5 * ONE>>, p)>> :
              p \in FragPositions \cup {<<0, 0, 5 * ONE>>}}
    \cup {<<"u_keyLightPos - v_worldPosition", Sub3(<<3 * ONE, 4 * ONE, 5 * ONE>>, p)>> :
              p \in FragPositions \cup {<<3 * ONE, 4 * ONE, 5 * ONE>>}}
    \cup {<<"lightDir + viewDir", Add3(l, v)>> : l \in UnitVectors, v \in UnitVectors}

FresnelCalls ==
    [pc : {"call"}, fn : {"fresnel"}, viewDir : UnitVectors, normal : UnitVectors,
     power : FresnelPowers, bias : FresnelBiases]
MainCalls ==
    {[pc |-> "call", fn |-> "main", in |-> in] :
     in \in {i \in FragInputs :
               <<i.u_keyLightIntensity, i.u_rimLightIntensity>> \in LightIntensities}}
NormalizeCalls ==
    {[pc |-> "call", fn |-> "normalize", site |-> a[1], arg |-> a[2]] :
     a \in NormalizeArgs}

\* fragments of the main.js shaders: smooth normals (three of them the half
\* vectors of the lights for the view (0,0,1)), world positions (one of them
\* with (0, 0.8, 0.6) reflecting the view straight up) and local positions
JsNormals ==
    {<<0, 0, ONE>>, <<Milli(600), Milli(800), 0>>, <<ONE, -ONE, DivInt(ONE, 2)>>,
     <<-ONE, ONE, ONE>>, <<0, Milli(800), Milli(600)>>,
     <<-Milli(533), Milli(775), Milli(1339)>>, <<Milli(577), Milli(577), Milli(1577)>>,
     <<-Milli(507), Milli(760), Milli(1406)>>}
JsPositions ==
    {<<0, 0, ONE>>, <<DivInt(ONE, 2), -DivInt(ONE, 2), 0>>,
     <<-DivInt(ONE, 2), DivInt(ONE, 2), DivInt(ONE, 2)>>, <<0, -Milli(280), Milli(4040)>>}
JsLocalPositions ==
    {<<0, 0>>, <<-DivInt(ONE, 2), Milli(300)>>, <<DivInt(ONE, 2), Milli(300)>>,
     <<-Milli(800), -Milli(400)>>}
JsInputs ==
    [v_smoothNormal : JsNormals, v_worldPosition : JsPositions,
     v_localPosition : JsLocalPositions, u_cameraPosition : {<<0, 0, 5 * ONE>>}]
JsCalls == [pc : {"call"}, fn : {"main.js", "part_000"}, in : JsInputs]

\* D_GGX on N.H from 0 to 1 with the roughness of each lobe and of specular
GgxNdotH == {0, DivInt(ONE, 2), 11000, 11940, 11990, ONE}
GgxRoughness == {Milli(18), Milli(25), Milli(50), Milli(150)}
GgxCalls == [pc : {"call"}, fn : {"D_GGX"}, NdotH : GgxNdotH, roughness : GgxRoughness]

\* cell ids: around 0, negative, inside both star layers and far outside
HashIds == {-200, -3, -1, 0, 1, 5, 27, 4589, 18360, 2000000}
MaxHashCalls == 2
HashCalls == [pc : {"call"}, fn : {"hash"}, p : HashIds \X HashIds, results : {<<>>}]

\* background pixels, clock values and window sizes (the default (1, 1) of
\* StarfieldShader, two windows and a window of no height)
StarUv == {0, Milli(100), DivInt(ONE, 2), Milli(700), ONE}
StarTimes == {0, 2 * ONE, Milli(7300)}
Resolutions == {<<1, 1>>, <<1920, 1080>>, <<800, 600>>, <<800, 0>>}
StarfieldCalls ==
    [pc : {"call"}, fn : {"starfield"}, vUv : StarUv \X StarUv, u_time : StarTimes,
     u_resolution : Resolutions]

ShadeInit ==
    /\ frame = Idle
    /\ frames = <<>>
    /\ app = Idle
    /\ noiseCall = Idle
    /\ vert = Idle
    /\ frag \in FresnelCalls \cup MainCalls \cup NormalizeCalls \cup JsCalls
                \cup GgxCalls \cup HashCalls \cup StarfieldCalls

\* one call of fresnel
FresnelCall ==
    /\ frag.pc = "call" /\ frag.fn = "fresnel"
    /\ \E undef \in Undefined :
       frag' = [pc |-> "done", fn |-> "fresnel", viewDir |-> frag.viewDir,
                normal |-> frag.normal, power |-> frag.power, bias |-> frag.bias,
                out |-> fresnel(frag.viewDir, frag.normal, frag.power, frag.bias,
                                undef)]
    /\ UNCHANGED <<noiseCall, vert, frame, frames, app>>

\* the fragment shader on one fragment
FragmentMain ==
    /\ frag.pc = "call" /\ frag.fn = "main"
    /\ \E undef \in Undefined :
       frag' = [pc |-> "done", fn |-> "main", in |-> frag.in,
                out |-> fragmentMain(frag.in, undef)]
    /\ UNCHANGED <<noiseCall, vert, frame, frames, app>>

\* one call of normalize
NormalizeCall ==
    /\ frag.pc = "call" /\ frag.fn = "normalize"
    /\ \E out \in normalize(frag.arg) :
       frag' = [pc |-> "done", fn |-> "normalize", site |-> frag.site,
                arg |-> frag.arg, out |-> out]
    /\ UNCHANGED <<noiseCall, vert, frame, frames, app>>

\* the fragment shader of main.js run on one fragment
FragmentMainJs ==
    /\ frag.pc = "call" /\ frag.fn = "main.js"
    /\ \E undef \in Undefined :
       frag' = [pc |-> "done", fn |-> "main.js", in |-> frag.in,
                out |-> jsMain(frag.in, undef)]
    /\ UNCHANGED <<noiseCall, vert, frame, frames, app>>

\* the fragment shader of part_000 run on one fragment
FragmentMainJs0 ==
    /\ frag.pc = "call" /\ frag.fn = "part_000"
    /\ \E undef \in Undefined :
       frag' = [pc |-> "done", fn |-> "part_000", in |-> frag.in,
                out |-> jsMain0(frag.in, undef)]
    /\ UNCHANGED <<noiseCall, vert, frame, frames, app>>

\* one call of D_GGX
DGGXCall ==
    /\ frag.pc = "call" /\ frag.fn = "D_GGX"
    /\ frag' = [pc |-> "done", fn |-> "D_GGX", NdotH |-> frag.NdotH,
                roughness |-> frag.roughness,
                denominator |-> ggxDenominator(frag.NdotH, frag.roughness),
                micro |-> D_GGXMicro(frag.NdotH, frag.roughness),
                out |-> D_GGX(frag.NdotH, frag.roughness)]
    /\ UNCHANGED <<noiseCall, vert, frame, frames, app>>

\* one more call of hash on the same cell id
HashCall ==
    /\ frag.fn = "hash" /\ Len(frag.results) < MaxHashCalls
    /\ frag' = [pc |-> "done", fn |-> "hash", p |-> frag.p,
                results |-> Append(frag.results, hash(frag.p))]
    /\ UNCHANGED <<noiseCall, vert, frame, frames, app>>

\* the starfield fragment shader run on one background pixel
StarfieldMain ==
    /\ frag.pc = "call" /\ frag.fn = "starfield"
    /\ \E undef \in Undefined :
       frag' = [pc |-> "done", fn |-> "starfield", vUv |-> frag.vUv,
                u_time |-> frag.u_time, u_resolution |-> frag.u_resolution,
                out |-> starfieldMain(frag.vUv, frag.u_time, frag.u_resolution, undef)]
    /\ UNCHANGED <<noiseCall, vert, frame, frames, app>>

ShadeNext ==
    \/ FresnelCall
    \/ FragmentMain
    \/ NormalizeCall
    \/ FragmentMainJs
    \/ FragmentMainJs0
    \/ DGGXCall
    \/ HashCall
    \/ StarfieldMain

SpecShade == ShadeInit /\ [][ShadeNext]_vars

---------------------------------------------------------------------------
(* SpecFrame: frames rendered one after the other; inside a frame the GPU  *)
(* runs the vertex shader once per vertex and the fragment shader once per *)
(* fragment, in any order                                                  *)

\* points of the unit sphere that SphereGeometry hands to createGeometry
SpherePoints ==
    <<(<<0, ONE, 0>>), (<<Milli(600), -Milli(800), 0>>), (<<ONE, 0, 0>>),
      (<<0, Milli(600), Milli(800)>>)>>
MeshSize == 2
Mesh == 1..MeshSize
MaxFrames == 3

\* createGeometry: stretch y by 1.5, taper and bulge x and z
EggPosition(p) ==
    Only({<<MulF(MulF(p[1], taper), bulge), DivInt(p[2] * 3, 2),
            MulF(MulF(p[3], taper), bulge)>> :
          <<taper, bulge>> \in
              {<<ONE - MulF(p[2] + ONE, Milli(80)),
                 ONE + MulF(ONE - Abs(p[2]), Milli(60))>>}})

\* the position attribute with the output of the previous frame fed back
positionAttributeFeedback(v) ==
    IF Len(frames) = 0 THEN EggPosition(SpherePoints[v])
    ELSE frames[Len(frames)].verts[v].newPosition

\* attribute vec3 position of vertex v: the buffer createGeometry filled
positionAttribute(v) == EggPosition(SpherePoints[v])

\* attribute vec3 normal of vertex v: computeVertexNormals gives a direction
\* per vertex; the radial direction of the sphere stands for it
normalAttribute(v) == SpherePoints[v]

\* mesh.position.set(0, -4.8, 0); mesh.scale.set(2.5, 2.5, 2.5)
modelMatrix(p) ==
    <<DivInt(p[1] * 5, 2), DivInt(p[2] * 5, 2) - Milli(4800), DivInt(p[3] * 5, 2)>>

FrameTimes == {ONE, DivInt(5 * ONE, 2)}

\* the uniforms that stay fixed over the frames
FrameUniforms ==
    [u_amplitude |-> DivInt(ONE, 4), u_noiseScale |-> ONE,
     u_viscosity |-> DivInt(ONE, 10),
     u_cameraPosition |-> <<0, 0, 5 * ONE>>,
     u_keyLightPos |-> <<3 * ONE, 4 * ONE, 5 * ONE>>,
     u_rimLightPos |-> <<-3 * ONE, 2 * ONE, -4 * ONE>>,
     u_keyLightColor |-> <<ONE, Milli(950), Milli(900)>>,
     u_rimLightColor |-> <<Milli(600), Milli(700), ONE>>,
     u_keyLightIntensity |-> Milli(1500), u_rimLightIntensity |-> ONE,
     u_fresnelPower |-> 3 * ONE, u_fresnelBias |-> Milli(40),
     u_absorption |-> Milli(800)]

\* what the rasterizer hands to the fragment shader for the fragment of a
\* vertex (no interpolation: one fragment per vertex)
Rasterize(v, out) ==
    [v_normal |-> normalAttribute(v),
     v_worldPosition |-> modelMatrix(out.newPosition),
     v_displacement |-> out.v_displacement,
     u_cameraPosition |-> FrameUniforms.u_cameraPosition,
     u_keyLightPos |-> FrameUniforms.u_keyLightPos,
     u_rimLightPos |-> FrameUniforms.u_rimLightPos,
     u_keyLightColor |-> FrameUniforms.u_keyLightColor,
     u_rimLightColor |-> FrameUniforms.u_rimLightColor,
     u_keyLightIntensity |-> FrameUniforms.u_keyLightIntensity,
     u_rimLightIntensity |-> FrameUniforms.u_rimLightIntensity,
     u_fresnelPower |-> FrameUniforms.u_fresnelPower,
     u_fresnelBias |-> FrameUniforms.u_fresnelBias,
     u_absorption |-> FrameUniforms.u_absorption]

NoOutputs == [v \in {} |-> 0]
With(f, v, out) == [w \in DOMAIN f \cup {v} |-> IF w = v THEN out ELSE f[w]]

FrameInit ==
    /\ noiseCall = Idle
    /\ vert = Idle
    /\ frag = Idle
    /\ frames = <<>>
    /\ app = Idle
    /\ frame \in [pc : {"idle"}, shader : {"main.js", "fragment.glsl"}]

\* animate: the elapsed time is written to u_time and the frame is submitted
Animate ==
    /\ frame.pc = "idle"
    /\ Len(frames) < MaxFrames
    /\ \E time \in FrameTimes :
       frame' = [pc |-> "render", shader |-> frame.shader, u_time |-> time,
                 first |-> 0, verts |-> NoOutputs, frags |-> NoOutputs]
    /\ UNCHANGED <<noiseCall, vert, frag, frames, app>>

\* the vertex shader of main.js runs on a vertex of the frame
RunVertexMain ==
    /\ frame.pc = "render" /\ frame.shader = "main.js"
    /\ \E v \in Mesh \ DOMAIN frame.verts :
       \E norm \in normalize(normalAttribute(v)) :
       \E out \in {vertexMain(positionAttribute(v), norm, frame.u_time,
                              FrameUniforms.u_amplitude)} :
       frame' = [frame EXCEPT !.verts = With(@, v, out),
                              !.first = IF @ = 0 THEN v ELSE @]
    /\ UNCHANGED <<noiseCall, vert, frag, frames, app>>

\* the vertex shader of shaders/fragment.glsl runs on a vertex of the frame
RunVertexMain4 ==
    /\ frame.pc = "render" /\ frame.shader = "fragment.glsl"
    /\ \E v \in Mesh \ DOMAIN frame.verts :
       \E norm \in normalize(normalAttribute(v)) :
       \E out \in {vertexMain4(positionAttribute(v), norm, frame.u_time,
                               FrameUniforms.u_amplitude, FrameUniforms.u_noiseScale,
                               FrameUniforms.u_viscosity)} :
       frame' = [frame EXCEPT !.verts = With(@, v, out),
                              !.first = IF @ = 0 THEN v ELSE @]
    /\ UNCHANGED <<noiseCall, vert, frag, frames, app>>

\* the fragment shader of shaders/fragment.glsl runs on the fragment of a
\* vertex that has been placed
RunFragmentMain ==
    /\ frame.pc = "render" /\ frame.shader = "fragment.glsl"
    /\ \E v \in DOMAIN frame.verts \ DOMAIN frame.frags :
       \E undef \in Undefined :
       \E out \in {fragmentMain(Rasterize(v, frame.verts[v]), undef)} :
       frame' = [frame EXCEPT !.frags = With(@, v, out.color)]
    /\ UNCHANGED <<noiseCall, vert, frag, frames, app>>

\* the frame is complete and is presented
Present ==
    /\ frame.pc = "render"
    /\ DOMAIN frame.verts = Mesh
    /\ frame.shader = "fragment.glsl" => DOMAIN frame.frags = Mesh
    /\ frames' = Append(frames, [u_time |-> frame.u_time, first |-> frame.first,
                                 verts |-> frame.verts, frags |-> frame.frags])
    /\ frame' = [pc |-> "idle", shader |-> frame.shader]
    /\ UNCHANGED <<noiseCall, vert, frag, app>>

FrameNext == Animate \/ RunVertexMain \/ RunVertexMain4 \/ RunFragmentMain \/ Present

SpecFrame == FrameInit /\ [][FrameNext]_vars

---------------------------------------------------------------------------
(* SpecApp: the page of main.js: the DOMContentLoaded handler constructs    *)
(* the LiquidHero, the browser then runs its frame callback animate and its *)
(* resize handler one at a time, while the clock source and the window     *)
(* change between them                                                     *)

\* seconds the clock source advances, and resize events that can be queued
MaxClock == 3
MaxPendingResize == 2
\* window.innerWidth and window.innerHeight
WindowSizes == {<<800, 600>>, <<1920, 1080>>, <<800, 0>>}

\* width / height in JavaScript, for width, height >= 0
jsDivide(x, y) == IF y = 0 THEN (IF x = 0 THEN NaN ELSE PosInf) ELSE DivF(x, y)

\* new THREE.Clock(): started by the first reading
newClock == [running |-> FALSE, oldTime |-> 0, elapsedTime |-> 0]

\* the clock after clock.getElapsedTime() at the time now; the value returned
\* is its elapsedTime
getElapsedTime(clock, now) ==
    IF ~clock.running THEN [running |-> TRUE, oldTime |-> now, elapsedTime |-> 0]
    ELSE [running |-> TRUE, oldTime |-> now,
          elapsedTime |-> clock.elapsedTime + (now - clock.oldTime)]

\* The page is a record: the window size, the clock source now, whether the
\* element canvas-container exists, the LiquidHero object hero (a record that
\* has a field once the constructor has assigned it), the frame callbacks and
\* resize events waiting, whether the resize listener is registered, and what
\* the task in progress did: the calls it made in order (log), whether it
\* ended in a TypeError (thrown), the fields the object had each time animate
\* or onResize began (entries) and the last two frames rendered (renders).

\* the next statement of a task: not reached after an exception
Then(page, statement(_)) == IF page.thrown THEN page ELSE statement(page)

\* a method is entered
Enter(page, method) == [page EXCEPT !.log = Append(@, method)]

\* lines 422-423: this.container, this.clock
newLiquidHero(page) == [page EXCEPT !.hero = [clock |-> newClock]]

\* init(): scene, camera and renderer; the last statement,
\* this.container.appendChild, is a TypeError when the element is missing
init(page) ==
    [Enter(page, "init") EXCEPT
        !.hero = With(With(@, "camera",
                           [aspect |-> jsDivide(page.window[1], page.window[2]),
                            position |-> <<0, 0, 5 * ONE>>]),
                      "renderer", [size |-> page.window]),
        !.thrown = ~page.container]

createStarfield(page) ==
    [Enter(page, "createStarfield") EXCEPT
        !.hero = With(@, "starfieldUniforms",
                      [u_time |-> 0, u_resolution |-> page.window])]

\* createGeometry(): the egg, and the uniforms with this.camera.position
createGeometry(page) ==
    [Enter(page, "createGeometry") EXCEPT
        !.hero = With(With(@, "geometry", "egg"), "uniforms",
                      [u_time |-> 0, u_amplitude |-> DivInt(ONE, 4),
                       u_cameraPosition |-> page.hero.camera.position])]

\* composer.addPass that puts the pass in front of the chain
addPassFirst(composer, pass) == [composer EXCEPT !.passes = <<pass>> \o @]

\* composer.addPass(pass)
addPass(composer, pass) == [composer EXCEPT !.passes = Append(@, pass)]

\* new EffectComposer(renderer): the size of the renderer, no passes
newEffectComposer(renderer) == [size |-> renderer.size, passes |-> <<>>]

\* setupPostProcessing(): the composer and its three passes
setupPostProcessing(page) ==
    [Enter(page, "setupPostProcessing") EXCEPT
        !.hero = With(@, "composer",
                      addPass(addPass(addPass(newEffectComposer(page.hero.renderer),
                                              "RenderPass"),
                                      "UnrealBloomPass"),
                              "ShaderPass"))]

\* requestAnimationFrame that queues nothing
requestAnimationFrameDropped(page) == Enter(page, "requestAnimationFrame")

\* requestAnimationFrame(() => this.animate()): one more callback waits; of
\* the handle the browser returns, one more at each request, the parity is kept
requestAnimationFrame(page) ==
    [Enter(page, "requestAnimationFrame") EXCEPT !.pendingFrames = @ + 1,
                                                 !.requestId = 1 - @]

\* animate that writes the time to the mesh uniform only
animateUniformsMeshOnly(hero, time) == [hero EXCEPT !.uniforms.u_time = time]

\* the two assignments of animate
animateUniforms(hero, time) ==
    [hero EXCEPT !.uniforms.u_time = time, !.starfieldUniforms.u_time = time]

\* lines 561-563: the clock is read, the two uniforms are written; writing
\* the uniform of an object that has none yet is a TypeError
animateTime(page) ==
    Only({IF "uniforms" \notin DOMAIN hero
          THEN [page EXCEPT !.hero = hero, !.log = Append(@, "getElapsedTime"),
                            !.thrown = TRUE]
          ELSE IF "starfieldUniforms" \notin DOMAIN hero
          THEN [page EXCEPT !.hero = [hero EXCEPT !.uniforms.u_time = hero.clock.elapsedTime],
                            !.log = Append(@, "getElapsedTime"), !.thrown = TRUE]
          ELSE [page EXCEPT !.hero = animateUniforms(hero, hero.clock.elapsedTime),
                            !.log = Append(@, "getElapsedTime")] :
          hero \in {[page.hero EXCEPT !.clock = getElapsedTime(@, page.now)]}})

\* what composer.render() does: its passes in their order, each reading the
\* uniforms of the two materials
render(hero) ==
    [mesh |-> hero.uniforms.u_time, star |-> hero.starfieldUniforms.u_time,
     passes |-> hero.composer.passes]

\* line 565: this.composer.render(); the last two frames are kept
animateRender(page) ==
    IF "composer" \notin DOMAIN page.hero THEN [page EXCEPT !.thrown = TRUE]
    ELSE [Enter(page, "render") EXCEPT
             !.renders = IF @ = <<>> THEN <<render(page.hero)>>
                         ELSE <<@[Len(@)], render(page.hero)>>]

\* animate(): the next frame is requested, then the time is read and
\* written, then the frame is rendered
animate(page) ==
    Then(Then(requestAnimationFrame(
                  [Enter(page, "animate") EXCEPT
                      !.entries = @ \cup {DOMAIN page.hero}]),
              animateTime),
         animateRender)

\* line 431: window.addEventListener('resize', ...)
addEventListener(page) == [Enter(page, "addEventListener") EXCEPT !.listening = TRUE]

\* the constructor with the first animate before setupPostProcessing
constructorAnimateEarly(page) ==
    Then(Then(Then(Then(Then(Then(newLiquidHero(page), init), createStarfield),
                        createGeometry), animate), setupPostProcessing),
         addEventListener)

\* new LiquidHero(): lines 421-432 in their order
constructor(page) ==
    Then(Then(Then(Then(Then(Then(newLiquidHero(page), init), createStarfield),
                        createGeometry), setupPostProcessing), animate),
         addEventListener)

\* setSize that keeps the size it has
setSizeIgnored(target, window) == target

\* renderer.setSize(width, height), composer.setSize(width, height)
setSize(target, window) == [target EXCEPT !.size = window]

\* onResize that also restarts the time uniform
onResizeRestart(hero, window) ==
    [hero EXCEPT !.camera.aspect = jsDivide(window[1], window[2]),
                 !.renderer = setSize(@, window), !.composer = setSize(@, window),
                 !.starfieldUniforms.u_resolution = window,
                 !.uniforms.u_time = 0]

\* the object after onResize with the window size it reads
onResize(hero, window) ==
    [hero EXCEPT !.camera.aspect = jsDivide(window[1], window[2]),
                 !.renderer = setSize(@, window), !.composer = setSize(@, window),
                 !.starfieldUniforms.u_resolution = window]

\* everything the shaders read from the object: the uniforms of both
\* materials, the geometry and the camera
shaderInputs(hero) ==
    [u_time           |-> hero.uniforms.u_time,
     u_amplitude      |-> hero.uniforms.u_amplitude,
     u_cameraPosition |-> hero.uniforms.u_cameraPosition,
     starfield_u_time |-> hero.starfieldUniforms.u_time,
     u_resolution     |-> hero.starfieldUniforms.u_resolution,
     geometry         |-> hero.geometry,
     aspect           |-> hero.camera.aspect]

\* the page before DOMContentLoaded: the script has registered its listener
AppInit ==
    /\ frame = Idle
    /\ frames = <<>>
    /\ noiseCall = Idle
    /\ vert = Idle
    /\ frag = Idle
    /\ app \in [pc : {"loading"}, window : WindowSizes, now : {0},
                container : BOOLEAN]

\* the clock source advances by a second
Tick ==
    /\ app.pc \in {"loading", "running"}
    /\ app.now < MaxClock * ONE
    /\ app' = [app EXCEPT !.now = @ + ONE]
    /\ UNCHANGED <<noiseCall, vert, frag, frame, frames>>

\* the user resizes the window; a resize event is queued when a listener is
\* registered
WindowResize ==
    /\ \E size \in WindowSizes \ {app.window} :
          \/ /\ app.pc = "loading"
             /\ app' = [app EXCEPT !.window = size]
          \/ /\ app.pc # "loading"
             /\ app.listening
             /\ app.pendingResize < MaxPendingResize
             /\ app' = [app EXCEPT !.window = size, !.pendingResize = @ + 1]
    /\ UNCHANGED <<noiseCall, vert, frag, frame, frames>>

\* DOMContentLoaded: new LiquidHero() runs the constructor to its end or to
\* its first exception
Construct ==
    /\ app.pc = "loading"
    /\ \E page \in {constructor([window |-> app.window, now |-> app.now,
                                 container |-> app.container, hero |-> <<>>,
                                 pendingFrames |-> 0, pendingResize |-> 0,
                                 listening |-> FALSE, renders |-> <<>>,
                                 log |-> <<>>, thrown |-> FALSE, entries |-> {},
                                 requestId |-> 0])} :
          app' = IF page.thrown
                 THEN With(With(page, "pc", "failed"), "op", "constructor")
                 ELSE With(With(With(With(page, "pc", "running"), "op", "constructor"),
                                "before", shaderInputs(page.hero)),
                           "handled", app.window)
    /\ UNCHANGED <<noiseCall, vert, frag, frame, frames>>

\* the browser runs a waiting frame callback: animate
FrameCallback ==
    /\ app.pc # "loading"
    /\ app.pendingFrames > 0
    /\ \E page \in {animate([app EXCEPT !.pendingFrames = @ - 1, !.log = <<>>,
                                        !.thrown = FALSE])} :
          app' = IF app.pc = "running"
                 THEN [page EXCEPT !.op = "animate", !.before = shaderInputs(app.hero)]
                 ELSE [page EXCEPT !.op = "animate"]
    /\ UNCHANGED <<noiseCall, vert, frag, frame, frames>>

\* a queued resize event is handled: onResize reads the window size
OnResize ==
    /\ app.pc = "running"
    /\ app.pendingResize > 0
    /\ app' = [app EXCEPT !.hero = onResize(app.hero, app.window),
                          !.pendingResize = @ - 1,
                          !.log = <<"onResize">>,
                          !.entries = @ \cup {DOMAIN app.hero},
                          !.op = "onResize",
                          !.before = shaderInputs(app.hero),
                          !.handled = app.window]
    /\ UNCHANGED <<noiseCall, vert, frag, frame, frames>>

AppNext == Tick \/ WindowResize \/ Construct \/ FrameCallback \/ OnResize

SpecApp == AppInit /\ [][AppNext]_vars

\* the browser runs a waiting frame callback sooner or later
SpecAppFair == SpecApp /\ WF_vars(FrameCallback)

---------------------------------------------------------------------------
(* Properties of the noise functions, under SpecNoise *)

Ones(a) == Cardinality({k \in DOMAIN a : a[k] = 1})
Leq(a, b) == \A k \in DOMAIN a : a[k] <= b[k]
InUnit(x) == IsFinite(x) /\ -ONE <= x /\ x <= ONE
\* 1/2 + 1/4 + ... over n terms
RECURSIVE HalvingSum(_)
HalvingSum(n) == IF n = 0 THEN 0 ELSE DivInt(ONE, 2^n) + HalvingSum(n - 1)

FbmDone == noiseCall.pc = "done" /\ noiseCall.fn = "fbm"
Snoise3Done == noiseCall.pc = "done" /\ noiseCall.fn = "snoise3"
Snoise4Done == noiseCall.pc = "done" /\ noiseCall.fn = "snoise4"

C9_Rank4Permutation ==
    Snoise4Done =>
        /\ {noiseCall.i0[k] : k \in 1..4} = 0..3
        /\ Ones(noiseCall.i1) = 1 /\ Ones(noiseCall.i2) = 2 /\ Ones(noiseCall.i3) = 3
        /\ \A k \in 1..4 : noiseCall.i1[k] \in {0, 1} /\ noiseCall.i2[k] \in {0, 1}
                           /\ noiseCall.i3[k] \in {0, 1}
        /\ Leq(noiseCall.i1, noiseCall.i2) /\ Leq(noiseCall.i2, noiseCall.i3)

\* snoise(vec4) ran at an exact lattice point other than the origin: all four
\* components of x0 equal
C9_Witness ==
    /\ Snoise4Done
    /\ noiseCall.v # <<0, 0, 0, 0>>
    /\ \A k \in 1..4 : noiseCall.x0[k] = noiseCall.x0[1]

\* C10 as stated: in snoise(vec3) i1 has exactly one component equal to 1, i2
\* exactly two, and i1 <= i2, for every offset x0.
C10_Corner3Distinct ==
    Snoise3Done =>
        /\ Ones(noiseCall.i1) = 1
        /\ Ones(noiseCall.i2) = 2
        /\ Leq(noiseCall.i1, noiseCall.i2)

---------------------------------------------------------------------------
(* Properties of the Deformer, under SpecDeform *)

VertDone == vert.pc = "done"
VertDoneJs == VertDone /\ vert.shader = "main.js"
VertDone4 == VertDone /\ vert.shader = "fragment.glsl"

\* C1: with u_amplitude = 0 the scalar displacement is 0 and newPosition is the
\* rest position exactly, in both vertex shaders, for every rest position, rest
\* normal and time.
C1_ZeroAmplitude ==
    (VertDone /\ vert.u_amplitude = 0) =>
        /\ vert.out.displacement = 0
        /\ vert.out.newPosition = vert.position
        /\ vert.shader = "fragment.glsl" => vert.out.v_displacement = 0

\* the bounds of C2
MaxVertBias == Only({b \in {vertBias(p) : p \in RestPositions} :
                        \A p \in RestPositions : vertBias(p) <= b})
SumWeightsJs == Milli(80) + Milli(50) + Milli(35) + Milli(120) + Milli(60)
SamplesInUnit ==
    IF vert.shader = "main.js"
    THEN \A f \in DOMAIN vert.out.samples : InUnit(vert.out.samples[f])
    ELSE /\ \A k \in DOMAIN vert.out.samples.primary.samples :
                InUnit(vert.out.samples.primary.samples[k])
         /\ InUnit(vert.out.samples.detail)

\* C2: when every noise sample and sine is in [-1,1], |displacement| is at most
\* u_amplitude * 1.2 * (1 + 0.15) in shaders/fragment.glsl and at most
\* u_amplitude * max(vertBias) * (0.08 + 0.05 + 0.035 + 0.12 + 0.06) in main.js,
\* at every time value.
C2_DisplacementBound ==
    (VertDone /\ SamplesInUnit) =>
        Abs(vert.out.displacement) <=
            IF vert.shader = "main.js"
            THEN MulF(MulF(vert.u_amplitude, MaxVertBias), SumWeightsJs)
            ELSE MulF(MulF(vert.u_amplitude, Milli(1200)), ONE + Milli(150))

\* a vertex was displaced, at the largest time value, with every sample in [-1,1]
C2_Witness ==
    /\ VertDone
    /\ SamplesInUnit
    /\ vert.u_time = 1000 * ONE
    /\ vert.u_amplitude = ONE
    /\ vert.out.displacement # 0

\* C3 as stated: every bias scalar multiplied into the displacement stays in a
\* fixed range however large |pos.y| is: [0.6, 1.2] in shaders/fragment.glsl
\* and, in main.js, the range vertBias has on the mesh (y in [-1.5, 1.5]).
C3_BiasClamped ==
    VertDone =>
        IF vert.shader = "fragment.glsl"
        THEN Milli(600) <= vert.out.bias /\ vert.out.bias <= Milli(1200)
        ELSE /\ vertBias(<<0, -DivInt(3 * ONE, 2), 0>>) <= vert.out.bias
             /\ vert.out.bias <= vertBias(<<0, DivInt(3 * ONE, 2), 0>>)

\* C19 as stated: every vertex shader hands the scalar displacement on to the
\* shading stage as v_displacement, and the value handed on is the scalar d
\* with newPosition = position + normal * d.
C19_DisplacementPassedOn ==
    VertDone =>
        /\ "v_displacement" \in vert.out.varyings
        /\ vert.out.v_displacement = vert.out.displacement

---------------------------------------------------------------------------
(* Properties of the ShadingModel, under SpecShade *)

FragDone == frag.pc = "done" /\ frag.fn = "main"
FresnelDone == frag.pc = "done" /\ frag.fn = "fresnel"

\* C4 as stated: after tone mapping every channel of the colour written to
\* gl_FragColor lies in [0,1].
C4_ToneMappedInUnit ==
    FragDone => \A k \in 1..3 : 0 <= frag.out.color[k] /\ frag.out.color[k] <= ONE

\* C5 as stated: every channel of the accumulated colour is >= 0 immediately
\* before tone mapping, for all values of u_absorption, the light intensities
\* and v_displacement.
C5_AccumulatedNonNegative ==
    FragDone => \A k \in 1..3 : frag.out.accumulated[k] >= 0

\* C6: fresnel returns bias when normal = viewDir, returns 1.0 when
\* dot(normal, viewDir) <= 0, and its result is always within [0,1].
C6_Fresnel ==
    FresnelDone =>
        /\ frag.normal = frag.viewDir => frag.out = frag.bias
        /\ Dot3(frag.normal, frag.viewDir) <= 0 => frag.out = ONE
        /\ 0 <= frag.out /\ frag.out <= ONE

\* fresnel was called head-on with a bias strictly between 0 and 1
C6_Witness ==
    /\ FresnelDone
    /\ frag.normal = frag.viewDir
    /\ frag.bias = Milli(40)
    /\ frag.power = DivInt(ONE, 2)
    /\ frag.out = Milli(40)

---------------------------------------------------------------------------
(* Properties of the frames, under SpecFrame *)

\* the outputs a frame in progress has so far agree with a presented frame
AgreesWith(f, g) ==
    /\ \A v \in DOMAIN f.verts : f.verts[v] = g.verts[v]
    /\ \A v \in DOMAIN f.frags : f.frags[v] = g.frags[v]

HeadOnUnlit ==
    /\ FragDone
    /\ frag.out.vectors.normal = <<0, 0, ONE>>
    /\ frag.out.vectors.viewDir = <<0, 0, ONE>>
    /\ frag.in.u_keyLightIntensity = 0
    /\ frag.in.u_rimLightIntensity = 0

\* the surface variation factor 0.95 + surfaceVar * 0.1 of line 152
SurfaceFactor == Milli(950) + MulF(frag.out.terms.surfaceVar, Milli(100))

\* absorbedColor + envColor * fresnelTerm * 0.6
CoreAndEnv ==
    Add3(frag.out.terms.absorbedColor,
         Scale3(Scale3(frag.out.terms.envColor, frag.out.terms.fresnelTerm), Milli(600)))

\* edgeColor * fresnelTerm * fresnelTerm * 0.4
EdgeTerm ==
    Scale3(Scale3(Scale3(frag.out.terms.edgeColor, frag.out.terms.fresnelTerm),
                  frag.out.terms.fresnelTerm),
           Milli(400))

\* C14 as stated: for a head-on fragment with all light intensities 0 the key
\* and rim contributions are 0 and nothing but the absorbed core colour and the
\* environment gradient contributes to finalColor.
C14_OnlyCoreAndEnv ==
    HeadOnUnlit =>
        /\ frag.out.terms.keyContribution = <<0, 0, 0>>
        /\ frag.out.terms.rimContribution = <<0, 0, 0>>
        /\ frag.out.accumulated = Scale3(CoreAndEnv, SurfaceFactor)

\* C14 amended: for a head-on fragment with all light intensities 0 the key and
\* rim contributions are 0, fresnelTerm is u_fresnelBias, and finalColor is the
\* absorbed core colour plus the environment gradient times bias * 0.6 plus the
\* edge colour times bias^2 * 0.4, all scaled by the surface variation factor.
C14_HeadOnUnlit ==
    HeadOnUnlit =>
        /\ frag.out.terms.keyContribution = <<0, 0, 0>>
        /\ frag.out.terms.rimContribution = <<0, 0, 0>>
        /\ frag.out.terms.fresnelTerm = frag.in.u_fresnelBias
        /\ frag.out.accumulated = Scale3(Add3(CoreAndEnv, EdgeTerm), SurfaceFactor)

\* a head-on unlit fragment whose edge colour term is not 0
C14_Witness ==
    /\ HeadOnUnlit
    /\ frag.in.u_fresnelBias = DivInt(ONE, 2)
    /\ frag.in.v_displacement = 0
    /\ EdgeTerm # <<0, 0, 0>>
    /\ frag.out.accumulated # <<0, 0, 0>>

\* the pow arguments of the fragment shader that come from dot products
DotPowArgs ==
    {frag.out.powArgs.fresnel, frag.out.powArgs.specular, frag.out.powArgs.keyDiffuse,
     frag.out.powArgs.keySpec, frag.out.powArgs.rimMask}

\* C11 as stated: every argument raised to a power with pow in the shading code
\* is >= 0 at the point of the call, the per-channel pow after tone mapping
\* included.
C11_PowArgsNonNegative ==
    /\ FragDone =>
          /\ \A x \in DotPowArgs : x >= 0
          /\ \A k \in 1..3 : frag.out.powArgs.toneMap[k] >= 0
    /\ (frag.pc = "done" /\ frag.fn \in {"main.js", "part_000"}) =>
          /\ frag.out.vectors.edgeFactor >= 0
          /\ frag.out.vectors.NdotV >= 0

NormalizeDone == frag.pc = "done" /\ frag.fn = "normalize"

\* a defined direction: finite components and length 1 (within rounding)
IsDirection(a) ==
    /\ \A k \in 1..3 : IsFinite(a[k])
    /\ Abs(Length3(a) - ONE) <= 4

\* C12 as stated: whenever a vector is passed to normalize, a zero-length one
\* included, the result is a defined direction.
C12_NormalizeFallback == NormalizeDone => IsDirection(frag.out)

JsDone == frag.pc = "done" /\ frag.fn \in {"main.js", "part_000"}
GgxDone == frag.pc = "done" /\ frag.fn = "D_GGX"
HashDone == frag.pc = "done" /\ frag.fn = "hash"
StarDone == frag.pc = "done" /\ frag.fn = "starfield"

\* a strictly positive number
Positive(x) == x # NaN /\ x > 0

\* the denominators of the falloff terms of the starfield
StarFalloffPositive ==
    StarDone =>
        /\ Positive(frag.out.denominators.sunGlow)
        /\ Positive(frag.out.denominators.ambientWarmth)
        /\ \A l \in 1..2 : \A k \in DOMAIN frag.out.layers[l].cells :
              frag.out.layers[l].cells[k].lit =>
                  /\ frag.out.layers[l].cells[k].d >= 0
                  /\ Positive(frag.out.layers[l].cells[k].denominator)
\* u_resolution.x / u_resolution.y
StarAspectPositive == StarDone => Positive(frag.out.denominators.aspect)
\* PI * d * d + 0.0001
GgxPositive == GgxDone => Positive(frag.denominator)
\* c * (2.2 * c + 0.58) + 0.13 and c + 0.5
FilmicPositive == JsDone => \A k \in 1..3 : Positive(frag.out.denominators[k])
\* c + 1
ReinhardPositive ==
    FragDone => \A k \in 1..3 : Positive(reinhardDenominator(frag.out.accumulated[k]))

\* C13 as stated: every division of the starfield, of D_GGX and of the tone
\* mappings has a strictly positive denominator.
C13_DenominatorsPositive ==
    /\ StarFalloffPositive
    /\ StarAspectPositive
    /\ GgxPositive
    /\ FilmicPositive
    /\ ReinhardPositive

\* the GGX distribution a2 / (PI * d * d), d = (N.H)^2 (a2 - 1) + 1, in units of
\* 10^-6 and as a float; out of range where PI * d * d is below 10^-6
GGXMicro(NdotH, roughness) ==
    Only({IF den = 0 THEN PosInf ELSE ggxA2(roughness) \div den :
          den \in {(SquareMicro(ggxD(NdotH, roughness)) * 355) \div 113}})
GGX(NdotH, roughness) ==
    Only({IF m = PosInf THEN PosInf ELSE (m * 12) \div 1000 :
          m \in {GGXMicro(NdotH, roughness)}})

\* C18 as stated: D_GGX returns exactly the GGX distribution, and the specular
\* lobe of shaders/fragment.glsl (roughness 0.15) is computed with it too.
C18_SpecularIsGGX ==
    /\ GgxDone => frag.micro = GGXMicro(frag.NdotH, frag.roughness)
    /\ FragDone => frag.out.powArgs.keySpec = GGX(frag.out.powArgs.specular, Milli(150))

Mod289Done == noiseCall.pc = "done" /\ noiseCall.fn = "mod289"
PermuteDone == noiseCall.pc = "done" /\ noiseCall.fn = "permute"

\* C17: mod289 maps every lattice coordinate of magnitude up to MaxLattice,
\* negative ones included, to a value of [0, 289) congruent to it modulo 289,
\* and permute of a value of [0, 289) plus a corner offset plus a wrapped
\* coordinate is in [0, 289) again.
C17_HashInRange ==
    /\ Mod289Done =>
          /\ noiseCall.result \in 0..288
          /\ (noiseCall.x - noiseCall.result) % 289 = 0
    /\ PermuteDone => noiseCall.result \in 0..288

\* mod289 has wrapped a negative coordinate below -289
C17_Witness ==
    /\ Mod289Done
    /\ noiseCall.x < -289
    /\ noiseCall.result > 0

\* the argument of the permute call, when it is a lattice index 0..288
PermuteIndex == noiseCall.x + noiseCall.offset + noiseCall.coordinate

\* C26: on the integers 0..288 permute is a bijection: the value of permute(x)
\* is in 0..288 and no other y in 0..288 has the same value.
C26_PermuteBijection ==
    (PermuteDone /\ PermuteIndex \in 0..288) =>
        /\ noiseCall.result \in 0..288
        /\ \A y \in 0..288 : permute(y) = noiseCall.result => y = PermuteIndex
        /\ \E y \in 0..288 : permute(y) = PermuteIndex

\* permute was called on the index 288, which it does not leave in place
C26_Witness ==
    /\ PermuteDone
    /\ PermuteIndex = 288
    /\ noiseCall.result # 288
    /\ noiseCall.result = (((288 * 34) + 10) * 288) % 289

\* the range [-1.05, 1.05]
InOvershootRange(x) == IsFinite(x) /\ -(ONE + Milli(50)) <= x /\ x <= ONE + Milli(50)

\* C21 as stated: for every coordinate, of magnitude up to tens, the 3D snoise
\* of main.js and the 4D snoise of shaders/fragment.glsl return a value in
\* [-1.05, 1.05].
C21_SnoiseInRange ==
    (Snoise3Done \/ Snoise4Done) => InOvershootRange(noiseCall.result)

---------------------------------------------------------------------------
(* Properties of the LiquidHero object, under SpecApp *)

Running == app.pc = "running"

\* C15: the two time uniforms are equal whenever a frame is rendered (and
\* between frames), and the time rendered does not decrease from one frame to
\* the next.
C15_TimeSharedAndMonotone ==
    Running =>
        /\ \A k \in 1..Len(app.renders) : app.renders[k].mesh = app.renders[k].star
        /\ app.hero.uniforms.u_time = app.hero.starfieldUniforms.u_time
        /\ Len(app.renders) = 2 => app.renders[1].mesh <= app.renders[2].mesh

\* two frames rendered at different times after the start of the clock
C15_Witness ==
    /\ Running
    /\ Len(app.renders) = 2
    /\ 0 < app.renders[1].mesh
    /\ app.renders[1].mesh < app.renders[2].mesh

\* the shader inputs now are those before the last handler, except for the
\* two time uniforms
OnlyTimeChanged ==
    [app.before EXCEPT !.u_time = app.hero.uniforms.u_time,
                       !.starfield_u_time = app.hero.starfieldUniforms.u_time]
        = shaderInputs(app.hero)

\* the shader inputs now are those before the last handler, except for
\* u_resolution and the aspect of the camera
OnlyViewportChanged ==
    [app.before EXCEPT !.u_resolution = app.hero.starfieldUniforms.u_resolution,
                       !.aspect = app.hero.camera.aspect]
        = shaderInputs(app.hero)

\* C16 as stated: after construction the clock is the only shader input that
\* any handler changes.
C16_OnlyClockChanges == (Running /\ app.op # "constructor") => OnlyTimeChanged

\* C16, amended: animate changes nothing but the two time uniforms; onResize
\* changes u_resolution and the aspect of the camera and nothing else, in
\* particular not u_time; u_amplitude, u_cameraPosition and the geometry are
\* changed by neither.
C16_HandlersWrite ==
    Running =>
        /\ app.op = "animate" => OnlyTimeChanged
        /\ app.op = "onResize" => OnlyViewportChanged
        /\ app.op \in {"constructor", "animate", "onResize"}
        /\ app.hero.uniforms.u_amplitude = app.before.u_amplitude
        /\ app.hero.uniforms.u_cameraPosition = app.before.u_cameraPosition
        /\ app.hero.geometry = app.before.geometry

\* a resize handled after the clock has advanced: u_resolution has changed,
\* u_time is kept
C16_Witness ==
    /\ Running
    /\ app.op = "onResize"
    /\ app.hero.starfieldUniforms.u_resolution # app.before.u_resolution
    /\ app.hero.uniforms.u_time > 0

\* the chain of setupPostProcessing
PostProcessingChain == <<"RenderPass", "UnrealBloomPass", "ShaderPass">>

\* C22: the composer holds exactly the scene render pass, the bloom pass and
\* the vignette pass, in that order, each once, from construction on, and every
\* frame is rendered through these three passes in that order.
C22_ChainFixed ==
    Running =>
        /\ app.hero.composer.passes = PostProcessingChain
        /\ \A k \in 1..Len(app.renders) : app.renders[k].passes = PostProcessingChain

\* two frames rendered at different times through the same chain
C22_Witness ==
    /\ Running
    /\ app.op = "animate"
    /\ Len(app.renders) = 2
    /\ app.renders[1].mesh < app.renders[2].mesh
    /\ app.renders[1].passes = app.renders[2].passes
    /\ app.hero.composer.size = <<1920, 1080>>

\* the places of a call in the log of the last task
CallsOf(call) == {k \in DOMAIN app.log : app.log[k] = call}
\* every call of the first kind was made before every call of the second
Before(first, second) == \A j \in CallsOf(first), k \in CallsOf(second) : j < k

\* the last task ran animate: the constructor or a frame callback
AnimateRan == app.pc # "loading" /\ CallsOf("animate") # {}

\* an invocation of animate requested exactly one frame, before it read the
\* clock and before it rendered, and one callback is waiting
OneFrameRequested ==
    /\ AnimateRan =>
          /\ Cardinality(CallsOf("requestAnimationFrame")) = 1
          /\ Cardinality(CallsOf("getElapsedTime")) = 1
          /\ Cardinality(CallsOf("render")) = 1
          /\ Before("requestAnimationFrame", "getElapsedTime")
          /\ Before("requestAnimationFrame", "render")
    /\ Running => app.pendingFrames = 1

\* C23: every invocation of animate requests exactly one further frame, before
\* it reads the clock and before it renders; from the first call on exactly one
\* frame callback is waiting at any time; and the loop never stops: whatever
\* the handle of the last request, a further request is made.
C23_FrameLoop ==
    /\ []OneFrameRequested
    /\ \A id \in {0, 1} :
          (Running /\ app.requestId = id) ~> (Running /\ app.requestId # id)

\* a frame callback has run after the constructor's first animate, at a later
\* time, and has requested the next frame
C23_Witness ==
    /\ Running
    /\ app.op = "animate"
    /\ app.log = <<"animate", "requestAnimationFrame", "getElapsedTime", "render">>
    /\ app.pendingFrames = 1
    /\ app.requestId = 0
    /\ app.hero.uniforms.u_time > 0

\* the fields animate and onResize use
Built == {"camera", "renderer", "composer", "uniforms", "starfieldUniforms"}

\* the constructor called each of its methods once, in the order of the code
ConstructorOrder ==
    /\ \A call \in {"init", "createStarfield", "createGeometry", "setupPostProcessing",
                     "animate", "addEventListener"} : Cardinality(CallsOf(call)) = 1
    /\ Before("init", "createStarfield")
    /\ Before("createStarfield", "createGeometry")
    /\ Before("createGeometry", "setupPostProcessing")
    /\ Before("setupPostProcessing", "animate")
    /\ Before("animate", "addEventListener")

\* C24: before DOMContentLoaded there is no LiquidHero; the constructor runs
\* init, createStarfield, createGeometry and setupPostProcessing in that order
\* before the first animate and before it registers the resize listener; and
\* every time animate or onResize began, the object had its camera, renderer,
\* composer, uniforms and starfieldUniforms.  A constructor that fails leaves
\* no frame callback and no listener behind.
C24_NeverPartlyBuilt ==
    /\ app.pc = "loading" => "hero" \notin DOMAIN app
    /\ app.pc # "loading" => \A fields \in app.entries : Built \subseteq fields
    /\ (Running /\ app.op = "constructor") => ConstructorOrder
    /\ Running => (app.listening /\ Built \subseteq DOMAIN app.hero)
    /\ app.pc = "failed" =>
          (app.pendingFrames = 0 /\ ~app.listening /\ app.pendingResize = 0)

\* the constructor's animate, a frame callback and a resize handler have all
\* run, the last one being the resize handler
C24_Witness ==
    /\ Running
    /\ app.op = "onResize"
    /\ Len(app.renders) = 2
    /\ app.entries = {DOMAIN app.hero}
    /\ app.pendingResize = 1

\* C25: after every onResize (and from construction on) camera.aspect is
\* width / height and the renderer size, the composer size and u_resolution
\* are the pair (width, height) that the last handler read from the window;
\* once every resize event is handled that pair is the size of the window;
\* and onResize leaves u_time and u_amplitude as they were.
C25_ResizeConsistent ==
    Running =>
        /\ app.hero.camera.aspect = jsDivide(app.handled[1], app.handled[2])
        /\ app.hero.renderer.size = app.handled
        /\ app.hero.composer.size = app.handled
        /\ app.hero.starfieldUniforms.u_resolution = app.handled
        /\ app.pendingResize = 0 => app.handled = app.window
        /\ app.op = "onResize" =>
              /\ app.hero.uniforms.u_time = app.before.u_time
              /\ app.hero.starfieldUniforms.u_time = app.before.starfield_u_time
              /\ app.hero.uniforms.u_amplitude = app.before.u_amplitude

\* the last of two resize events has been handled, between frames: the sizes
\* went from 1920 x 1080 to 800 x 600
C25_Witness ==
    /\ Running
    /\ app.op = "onResize"
    /\ app.pendingResize = 0
    /\ app.before.u_resolution = <<1920, 1080>>
    /\ app.handled = <<800, 600>>
    /\ app.hero.camera.aspect = DivInt(4 * ONE, 3)
    /\ Len(app.renders) = 2

====
